---- MODULE Spec2Model ----
(***************************************************************************)
(* Transactional outbox / idempotent inbox of fastapibuildingblocks.       *)
(*                                                                         *)
(* The model has three parts that share one set of variables:              *)
(*   - the business transaction that stores events in outbox_messages      *)
(*     (OutboxEventPublisher, OutboxRepository.add);                       *)
(*   - the Relay replicas that claim, send and mark rows                   *)
(*     (OutboxRelay._process_batch, OutboxRepository);                     *)
(*   - the inbox consumers that read a partition, deduplicate, handle and  *)
(*     commit (InboxIntegrationEventConsumer, InboxRepository).            *)
(* The database is modelled by its committed tables plus, per open         *)
(* transaction, the writes staged in the session and the row locks held.   *)
(***************************************************************************)
EXTENDS Integers, Sequences, FiniteSets, TLC

\* ---------------------------------------------------------------- bounds
NumEvents == 2
MaxRows == 2
NumRelays == 2
NumConsumers == 2
batch_size == 2
max_attempts == 2
MaxSendFailures == 2
MaxRelayCrashes == 1
MaxTime == 300
TimeStep == 300
MaxLog == 2
MaxHandlerFailures == 2
MaxConsumerRestarts == 1
MaxRetryAttempts == 2
MaxRebalances == 1
NumAggregates == 2
MaxStorageFailures == 1
MaxOperatorRetries == 2
MaxRelayStarts == 3
MaxBehaviorCalls == 2

\* ------------------------------------------------------- program constants
lock_duration_seconds == 300

Events == 1..NumEvents
RowIds == 1..MaxRows
Relays == 1..NumRelays
Partitions == 1..NumConsumers
Consumers == 1..NumConsumers

\* Optional values: None, or Some(v)
None == <<>>
Some(v) == <<v>>
NoRow == [status |-> "absent"]

PENDING == "pending"
PUBLISHED == "published"
FAILED == "failed"
PROCESSING == "processing"
PROCESSED == "processed"

VARIABLES
    aggregate_id,   \* IntegrationEvent.aggregate_id of every event (None = unset)
    now,            \* datetime.utcnow(), in seconds
    outbox,         \* committed outbox_messages: row id -> row or NoRow
    nextId,         \* next surrogate id handed out to an OutboxMessage
    appSession,     \* rows added to the caller's open session, not yet committed
    everCommitted,  \* history: row ids whose business transaction committed
    rowLock,        \* FOR UPDATE row locks: row id -> None or Some(holding Relay)
    relayPc,        \* per Relay: "idle" (between polls) or "batch" (transaction open)
    relayBatch,     \* per Relay: the claimed rows, in created_at order
    relayIdx,       \* per Relay: index in relayBatch of the next row to publish
    relayTx,        \* per Relay: the rows as changed inside the open batch transaction
    sendFailures,   \* number of sends the broker has rejected so far
    relayCrashes,   \* number of Relay crashes so far
    sentCommitted,  \* history: row ids sent in a batch that committed
    relayFailed,    \* history, per Relay: rows of the open batch whose send raised
    failedCommitted,\* history: per row, failed sends in batches that committed
    log,            \* broker: partition -> sequence of messages
    handlers,       \* InboxIntegrationEventConsumer._handlers: event types registered
    autoflush,      \* the autoflush setting of the sessions the session_factory makes
    inbox,          \* committed inbox_messages: a set of rows
    effects,        \* committed side effects of the handler, per event: times applied
    committed,      \* broker: committed offset of every partition (next to deliver)
    consPc,         \* per consumer: where it is in _consume_loop / _process_message_with_inbox
    consPos,        \* per consumer: in-memory position (offset of the next message)
    consCur,        \* per consumer: offset of the message being processed
    consTx,         \* per consumer: the open message transaction
    consOutcome,    \* per consumer: how the processing of the current message ended
    handlerFailures,\* number of times a handler has raised so far
    consRestarts,   \* number of consumer restarts so far
    handlerCalls,   \* history: handler invocations per event
    skipped,        \* history: deliveries skipped as duplicates, per event
    fetched,        \* history: deliveries per event
    pendingFailure, \* history: <<partition, offset>> whose latest processing raised
    enable_inbox,   \* KafkaConfig.enable_inbox
    enable_dlq,     \* KafkaConfig.enable_dlq
    max_retry_attempts, \* KafkaConfig.max_retry_attempts
    retry_counts,   \* per Direct Consumer: the retry_counts dict of _consume_loop,
                    \* offset -> count (0 = no entry)
    dlq,            \* broker: the dead-letter topic, one sequence per partition
    consRebalances, \* number of partition reassignments so far
    failedDeliveries, \* history: per partition and offset, deliveries whose handler raised
    pubLast,        \* Direct Publisher: how the last publish call ended
    _started,       \* KafkaIntegrationEventPublisher._started
    _producer,      \* KafkaIntegrationEventPublisher._producer: "none", or the state
                    \* of the AIOKafkaProducer: "created", "running", "closed"
    pubPhase,       \* history: "new"; "started" after a start() that succeeded;
                    \* "stopped" / "stop failed" after a stop() that closed the
                    \* producer / whose producer.stop() raised
    storageFailures,\* number of database failures inside Relay batches so far
    correlation_id, \* IntegrationEvent.correlation_id of every event (None = unset)
    service_name,   \* the service name each publisher was configured with:
                    \* OutboxEventPublisher.service_name, KafkaConfig.service_name
    source_service, \* IntegrationEvent.source_service of the event instance handed
                    \* to the publisher of each mode (publish sets it when unset)
    stored,         \* per event: the OutboxMessage OutboxEventPublisher.publish built
    sent,           \* per mode and event: the record the producer handed to the broker
    received,       \* per mode and event: what the consumer unwrapped from the record
    operatorRetries,\* number of OutboxRepository.retry_failed_message calls so far
    _running,       \* per Relay: OutboxRelay._running
    relay_producer, \* per Relay: OutboxRelay._producer: "none", or the state of the
                    \* AIOKafkaProducer: "created", "running", "closed"
    relayStarts,    \* number of OutboxRelay.start() calls so far
    relayLast,      \* history, per Relay: the last start() or stop() call and how it ended
    behaviorLast    \* IntegrationEventPublishingBehavior: the number of handle calls so far,
                    \* and what the last one was handed and how it ended

appVars == <<nextId, appSession, everCommitted>>
relayVars == <<rowLock, relayPc, relayBatch, relayIdx, relayTx, sendFailures, relayCrashes,
               sentCommitted, relayFailed, failedCommitted>>
consVars == <<inbox, effects, committed, consPc, consPos, consCur, consTx, consOutcome,
              handlerFailures, consRestarts, handlerCalls, skipped, fetched, pendingFailure>>
cfgVars == <<aggregate_id, handlers, autoflush, enable_inbox, enable_dlq, max_retry_attempts>>
directVars == <<retry_counts, dlq, consRebalances, failedDeliveries>>
pubVars == <<pubLast, _started, _producer, pubPhase>>
faultVars == <<storageFailures>>
envVars == <<correlation_id, service_name, source_service, stored, sent, received>>
opsVars == <<operatorRetries, _running, relay_producer, relayStarts, relayLast, behaviorLast>>
vars == <<cfgVars, opsVars, faultVars, envVars, directVars, pubVars, now, outbox, log, appVars, relayVars, consVars>>

\* ------------------------------------------------------------- helpers

Range(s) == {s[i] : i \in DOMAIN s}

Min(a, b) == IF a < b THEN a ELSE b

\* the UUIDs in use: event ids, aggregate ids and correlation ids
Aggregates == {1}
CorrelationIds == {1}
AllAggregates == 1..NumAggregates
Uuids == Events \cup AllAggregates \cup CorrelationIds

\* str(uuid): the text of a UUID; distinct UUIDs have distinct texts
str(u) == "uuid-" \o ToString(u)

\* UUID(text): the UUID a text denotes
UUID(s) == CHOOSE u \in Uuids : str(u) = s

\* variant: the key is taken from the event's own id
get_partition_key_by_event_id(e) == Some(str(e))

\* IntegrationEvent.get_partition_key: str(aggregate_id), or None
get_partition_key(e) == IF aggregate_id[e] # None THEN Some(str(aggregate_id[e][1])) ELSE None

\* The broker's partitioner: equal keys go to the same partition; a message
\* without a key may go to any partition.
PartitionsOfKey(key) ==
    IF key = None THEN Partitions ELSE {((UUID(key[1]) - 1) % NumConsumers) + 1}

\* IntegrationEvent.get_topic_name: a fixed prefix and the event type
get_topic_name(e) == <<"integration-events", e>>

\* OutboxMessage as built by OutboxEventPublisher.publish (column defaults included)
OutboxMessage(id, e) ==
    [status |-> PENDING, event_id |-> e, topic |-> get_topic_name(e),
     partition_key |-> get_partition_key(e),
     created_at |-> id, published_at |-> None, locked_until |-> None,
     attempt_count |-> 0, last_error |-> None]

Exists(id) == outbox[id] # NoRow

\* ------------------------------------------------- business transaction

\* variant: publish commits the session it was handed
PublishCommits(e) ==
    /\ nextId <= MaxRows
    /\ outbox' = [id \in RowIds |->
                     IF id = nextId THEN OutboxMessage(nextId, e)
                     ELSE IF id \in DOMAIN appSession THEN appSession[id] ELSE outbox[id]]
    /\ everCommitted' = everCommitted \cup DOMAIN appSession \cup {nextId}
    /\ appSession' = <<>>
    /\ nextId' = nextId + 1
    /\ UNCHANGED <<cfgVars, opsVars, faultVars, envVars, pubVars, directVars, consVars, now, log, relayVars>>

\* OutboxEventPublisher.publish -> OutboxRepository.add: session.add only
Publish(e) ==
    /\ nextId <= MaxRows
    /\ appSession' = appSession @@ (nextId :> OutboxMessage(nextId, e))
    /\ nextId' = nextId + 1
    /\ UNCHANGED <<cfgVars, opsVars, faultVars, envVars, pubVars, directVars, consVars, now, outbox, log, everCommitted, relayVars>>

\* the event lists handed to publish_many
EventLists == {<<>>} \cup {<<e>> : e \in Events} \cup {<<e1, e2>> : e1 \in Events, e2 \in Events}

\* OutboxEventPublisher.publish_many -> OutboxRepository.add_many: one
\* OutboxMessage per event, in the order of the list, session.add_all only;
\* an empty list returns at once
PublishMany(events) ==
    /\ nextId + Len(events) - 1 <= MaxRows
    /\ appSession' = IF events = <<>> THEN appSession
                     ELSE appSession @@
                          [id \in nextId..(nextId + Len(events) - 1) |->
                               OutboxMessage(id, events[id - nextId + 1])]
    /\ nextId' = nextId + Len(events)
    /\ UNCHANGED <<cfgVars, opsVars, faultVars, envVars, pubVars, directVars, consVars, now, outbox, log, everCommitted, relayVars>>

\* The caller commits its transaction: the rows of the session become visible
AppCommit ==
    /\ DOMAIN appSession # {}
    /\ outbox' = [id \in RowIds |-> IF id \in DOMAIN appSession THEN appSession[id] ELSE outbox[id]]
    /\ everCommitted' = everCommitted \cup DOMAIN appSession
    /\ appSession' = <<>>
    /\ UNCHANGED <<cfgVars, opsVars, faultVars, envVars, pubVars, directVars, consVars, now, log, nextId, relayVars>>

\* The caller rolls back, or the service crashes before the commit
AppRollback ==
    /\ DOMAIN appSession # {}
    /\ appSession' = <<>>
    /\ UNCHANGED <<cfgVars, opsVars, faultVars, envVars, pubVars, directVars, consVars, now, outbox, log, nextId, everCommitted, relayVars>>

\* --------------------------------------------------- OutboxRepository

\* variant: the WHERE clause tests the status only
IsPendingAnyLease(row) == row.status = PENDING

\* The WHERE clause of get_pending_messages
IsPendingUnleased(row) ==
    /\ row.status = PENDING
    /\ (row.locked_until = None \/ row.locked_until[1] < now)

\* variant: a plain SELECT: rows locked by another transaction are read too
SkipLockedMissing(id) == TRUE

\* with_for_update(skip_locked=True): rows locked by another transaction are skipped
SkipLocked(id) == rowLock[id] = None

\* ORDER BY created_at
OrderByCreatedAt(S) ==
    CHOOSE s \in [1..Cardinality(S) -> S] :
        \A i, j \in 1..Cardinality(S) : i < j => outbox[s[i]].created_at < outbox[s[j]].created_at

\* LIMIT
Limit(s, n) == SubSeq(s, 1, Min(n, Len(s)))

\* OutboxRepository.get_pending_messages: the rows selected
get_pending_messages(limit) ==
    Limit(OrderByCreatedAt({id \in RowIds : Exists(id) /\ IsPendingUnleased(outbox[id]) /\ SkipLocked(id)}), limit)

\* the lease written on a selected row
LockRow(row, lock_duration) == [row EXCEPT !.locked_until = Some(now + lock_duration)]

\* OutboxRepository.mark_as_published
mark_as_published(row) == [row EXCEPT !.status = PUBLISHED, !.published_at = Some(now)]

\* variant: the row is failed at the first failure, whatever max_attempts is
mark_as_failed_at_once(row, max) ==
    [row EXCEPT !.attempt_count = @ + 1,
                !.last_error = Some("KafkaError"),
                !.locked_until = None,
                !.status = FAILED]

\* variant: off by one: failed only when attempt_count exceeds max_attempts
mark_as_failed_off_by_one(row, max) ==
    LET n == row.attempt_count + 1 IN
    [row EXCEPT !.attempt_count = n,
                !.last_error = Some("KafkaError"),
                !.locked_until = None,
                !.status = IF n > max THEN FAILED ELSE @]

\* variant: the lease written by the claim is left on the row
mark_as_failed_keeps_lease(row, max) ==
    LET n == row.attempt_count + 1 IN
    [row EXCEPT !.attempt_count = n,
                !.last_error = Some("KafkaError"),
                !.status = IF n >= max THEN FAILED ELSE @]

\* variant: the row is marked published although its send raised
mark_as_failed_marks_published(row, max) == [row EXCEPT !.status = PUBLISHED, !.published_at = Some(now)]

\* variant: the error is recorded but the attempt is not counted
mark_as_failed_not_counted(row, max) ==
    [row EXCEPT !.last_error = Some("KafkaError"),
                !.locked_until = None,
                !.status = IF row.attempt_count + 1 >= max THEN FAILED ELSE @]

\* OutboxRepository.mark_as_failed
mark_as_failed(row, max) ==
    LET n == row.attempt_count + 1 IN
    [row EXCEPT !.attempt_count = n,
                !.last_error = Some("KafkaError"),
                !.locked_until = None,
                !.status = IF n >= max THEN FAILED ELSE @]

\* variant: the row gets a fresh budget of attempts
retry_failed_message_resets_count(row) ==
    [row EXCEPT !.status = PENDING, !.locked_until = None, !.last_error = None,
                !.attempt_count = 0]

\* OutboxRepository.retry_failed_message: the row found by id is written
\* whatever its status is
retry_failed_message(row) ==
    [row EXCEPT !.status = PENDING, !.locked_until = None, !.last_error = None]

\* an operator calls retry_failed_message(id) and commits; nothing happens
\* when no row has the id; the UPDATE waits for a Relay's lock on the row
OperatorRetry(id) ==
    /\ operatorRetries < MaxOperatorRetries
    /\ rowLock[id] = None
    /\ operatorRetries' = operatorRetries + 1
    /\ outbox' = IF Exists(id) THEN [outbox EXCEPT ![id] = retry_failed_message(@)] ELSE outbox
    /\ UNCHANGED <<cfgVars, _running, relay_producer, relayStarts, relayLast, behaviorLast,
                   faultVars, envVars, pubVars, directVars, consVars, now, log, appVars, relayVars>>

\* the retention periods handed to cleanup_old_messages, in seconds
Retentions == {0, TimeStep}

\* variant: the DELETE has no status filter
IsExpiredAnyStatus(row, cutoff) ==
    row.published_at = None \/ row.published_at[1] < cutoff

\* The WHERE clause of cleanup_old_messages (a NULL published_at compares to
\* nothing)
IsExpired(row, cutoff) ==
    /\ row.status = PUBLISHED
    /\ row.published_at # None
    /\ row.published_at[1] < cutoff

\* OutboxRepository.cleanup_old_messages followed by the caller's commit
Cleanup(retention) ==
    /\ \E id \in RowIds : Exists(id)
    /\ outbox' = [id \in RowIds |->
                     IF Exists(id) /\ IsExpired(outbox[id], now - retention)
                     THEN NoRow ELSE outbox[id]]
    /\ UNCHANGED <<cfgVars, opsVars, faultVars, envVars, pubVars, directVars, consVars, now, log, appVars, relayVars>>

\* ---------------------------------------------------------- OutboxRelay

\* the message OutboxRelay._send_to_kafka hands to the producer
KafkaMessage(row) == [event_id |-> row.event_id, topic |-> row.topic, key |-> row.partition_key]

\* _relay_loop -> _process_batch: open a transaction and claim a batch
RelayPoll(r) ==
    /\ _running[r]
    /\ relayPc[r] = "idle"
    /\ LET messages == get_pending_messages(batch_size) IN
       IF messages = <<>>
       THEN UNCHANGED <<relayVars>>
       ELSE /\ relayPc' = [relayPc EXCEPT ![r] = "batch"]
            /\ relayBatch' = [relayBatch EXCEPT ![r] = messages]
            /\ relayIdx' = [relayIdx EXCEPT ![r] = 1]
            /\ rowLock' = [id \in RowIds |-> IF id \in Range(messages) THEN Some(r) ELSE rowLock[id]]
            /\ relayTx' = [relayTx EXCEPT ![r] =
                   [id \in Range(messages) |-> LockRow(outbox[id], lock_duration_seconds)]]
            /\ UNCHANGED <<sendFailures, relayCrashes, sentCommitted, relayFailed, failedCommitted>>
    /\ UNCHANGED <<cfgVars, opsVars, faultVars, envVars, pubVars, directVars, consVars, now, outbox, log, appVars>>

\* one iteration of the for loop: send_and_wait succeeds, then mark_as_published
RelaySendOk(r, p) ==
    /\ relayPc[r] = "batch"
    /\ relayIdx[r] <= Len(relayBatch[r])
    /\ LET id == relayBatch[r][relayIdx[r]] IN
       /\ p \in PartitionsOfKey(relayTx[r][id].partition_key)
       /\ log' = [log EXCEPT ![p] = Append(@, KafkaMessage(relayTx[r][id]))]
       /\ relayTx' = [relayTx EXCEPT ![r][id] = mark_as_published(@)]
    /\ relayIdx' = [relayIdx EXCEPT ![r] = @ + 1]
    /\ UNCHANGED <<cfgVars, opsVars, faultVars, envVars, pubVars, directVars, consVars, now, outbox, appVars, rowLock, relayPc, relayBatch, sendFailures,
                   relayCrashes, sentCommitted, relayFailed, failedCommitted>>

\* variant: the failure of one send leaves the for loop; the outer except
\* rolls the whole batch back
RelaySendFailAborts(r) ==
    /\ relayPc[r] = "batch"
    /\ relayIdx[r] <= Len(relayBatch[r])
    /\ sendFailures < MaxSendFailures
    /\ sendFailures' = sendFailures + 1
    /\ rowLock' = [id \in RowIds |-> IF rowLock[id] = Some(r) THEN None ELSE rowLock[id]]
    /\ relayPc' = [relayPc EXCEPT ![r] = "idle"]
    /\ relayBatch' = [relayBatch EXCEPT ![r] = <<>>]
    /\ relayIdx' = [relayIdx EXCEPT ![r] = 1]
    /\ relayTx' = [relayTx EXCEPT ![r] = <<>>]
    /\ relayFailed' = [relayFailed EXCEPT ![r] = {}]
    /\ UNCHANGED <<cfgVars, opsVars, faultVars, envVars, pubVars, directVars, consVars, now, outbox, log, appVars, relayCrashes, sentCommitted, failedCommitted>>

\* one iteration of the for loop: send_and_wait raises, then mark_as_failed
RelaySendFail(r) ==
    /\ relayPc[r] = "batch"
    /\ relayIdx[r] <= Len(relayBatch[r])
    /\ sendFailures < MaxSendFailures
    /\ LET id == relayBatch[r][relayIdx[r]] IN
       relayTx' = [relayTx EXCEPT ![r][id] = mark_as_failed(@, max_attempts)]
    /\ relayIdx' = [relayIdx EXCEPT ![r] = @ + 1]
    /\ sendFailures' = sendFailures + 1
    /\ relayFailed' = [relayFailed EXCEPT ![r] = @ \cup {relayBatch[r][relayIdx[r]]}]
    /\ UNCHANGED <<cfgVars, opsVars, faultVars, envVars, pubVars, directVars, consVars, now, outbox, log, appVars, rowLock, relayPc, relayBatch,
                   relayCrashes, sentCommitted, failedCommitted>>

\* session.commit() after the loop: the batch's changes become visible, locks go
RelayCommit(r) ==
    /\ relayPc[r] = "batch"
    /\ relayIdx[r] > Len(relayBatch[r])
    /\ outbox' = [id \in RowIds |-> IF id \in DOMAIN relayTx[r] THEN relayTx[r][id] ELSE outbox[id]]
    /\ sentCommitted' = sentCommitted \cup (Range(relayBatch[r]) \ relayFailed[r])
    /\ failedCommitted' = [id \in RowIds |-> IF id \in relayFailed[r] THEN failedCommitted[id] + 1 ELSE failedCommitted[id]]
    /\ relayFailed' = [relayFailed EXCEPT ![r] = {}]
    /\ rowLock' = [id \in RowIds |-> IF rowLock[id] = Some(r) THEN None ELSE rowLock[id]]
    /\ relayPc' = [relayPc EXCEPT ![r] = "idle"]
    /\ relayBatch' = [relayBatch EXCEPT ![r] = <<>>]
    /\ relayIdx' = [relayIdx EXCEPT ![r] = 1]
    /\ relayTx' = [relayTx EXCEPT ![r] = <<>>]
    /\ UNCHANGED <<cfgVars, opsVars, faultVars, envVars, pubVars, directVars, consVars, now, log, appVars, sendFailures, relayCrashes>>

\* the Relay process dies inside a batch: the database rolls the transaction
\* back and releases its locks; the process is restarted
RelayCrash(r) ==
    /\ relayPc[r] = "batch"
    /\ relayCrashes < MaxRelayCrashes
    /\ relayCrashes' = relayCrashes + 1
    /\ rowLock' = [id \in RowIds |-> IF rowLock[id] = Some(r) THEN None ELSE rowLock[id]]
    /\ relayPc' = [relayPc EXCEPT ![r] = "idle"]
    /\ relayBatch' = [relayBatch EXCEPT ![r] = <<>>]
    /\ relayIdx' = [relayIdx EXCEPT ![r] = 1]
    /\ relayTx' = [relayTx EXCEPT ![r] = <<>>]
    /\ relayFailed' = [relayFailed EXCEPT ![r] = {}]
    /\ UNCHANGED <<cfgVars, opsVars, faultVars, envVars, pubVars, directVars, consVars, now, outbox, log, appVars, sendFailures, sentCommitted, failedCommitted>>

\* variant: the outer except commits what the batch had marked so far
BatchRollbackCommits(r) ==
    /\ outbox' = [id \in RowIds |-> IF id \in DOMAIN relayTx[r] THEN relayTx[r][id] ELSE outbox[id]]
    /\ rowLock' = [id \in RowIds |-> IF rowLock[id] = Some(r) THEN None ELSE rowLock[id]]
    /\ relayPc' = [relayPc EXCEPT ![r] = "idle"]
    /\ relayBatch' = [relayBatch EXCEPT ![r] = <<>>]
    /\ relayIdx' = [relayIdx EXCEPT ![r] = 1]
    /\ relayTx' = [relayTx EXCEPT ![r] = <<>>]
    /\ relayFailed' = [relayFailed EXCEPT ![r] = {}]
    /\ storageFailures' = storageFailures + 1

\* the outer except of _process_batch: session.rollback() drops every change
\* of the batch and releases its row locks; the error is logged and the loop
\* goes on with the next poll
BatchRollback(r) ==
    /\ outbox' = outbox
    /\ rowLock' = [id \in RowIds |-> IF rowLock[id] = Some(r) THEN None ELSE rowLock[id]]
    /\ relayPc' = [relayPc EXCEPT ![r] = "idle"]
    /\ relayBatch' = [relayBatch EXCEPT ![r] = <<>>]
    /\ relayIdx' = [relayIdx EXCEPT ![r] = 1]
    /\ relayTx' = [relayTx EXCEPT ![r] = <<>>]
    /\ relayFailed' = [relayFailed EXCEPT ![r] = {}]
    /\ storageFailures' = storageFailures + 1

\* one iteration of the for loop with the database gone: send_and_wait
\* succeeds, mark_as_published raises; the per-row except calls mark_as_failed,
\* which raises as well, and the exception reaches the outer except
RelayMarkPublishedRaises(r, p) ==
    /\ relayPc[r] = "batch"
    /\ relayIdx[r] <= Len(relayBatch[r])
    /\ storageFailures < MaxStorageFailures
    /\ LET id == relayBatch[r][relayIdx[r]] IN
       /\ p \in PartitionsOfKey(relayTx[r][id].partition_key)
       /\ log' = [log EXCEPT ![p] = Append(@, KafkaMessage(relayTx[r][id]))]
    /\ BatchRollback(r)
    /\ UNCHANGED <<cfgVars, opsVars, envVars, pubVars, directVars, consVars, now, appVars, sendFailures,
                   relayCrashes, sentCommitted, failedCommitted>>

\* one iteration of the for loop with the database gone: send_and_wait raises,
\* then mark_as_failed raises inside the per-row except
RelayMarkFailedRaises(r) ==
    /\ relayPc[r] = "batch"
    /\ relayIdx[r] <= Len(relayBatch[r])
    /\ storageFailures < MaxStorageFailures
    /\ sendFailures < MaxSendFailures
    /\ sendFailures' = sendFailures + 1
    /\ BatchRollback(r)
    /\ UNCHANGED <<cfgVars, opsVars, envVars, pubVars, directVars, consVars, now, log, appVars,
                   relayCrashes, sentCommitted, failedCommitted>>

\* session.commit() after the loop raises
RelayCommitRaises(r) ==
    /\ relayPc[r] = "batch"
    /\ relayIdx[r] > Len(relayBatch[r])
    /\ storageFailures < MaxStorageFailures
    /\ BatchRollback(r)
    /\ UNCHANGED <<cfgVars, opsVars, envVars, pubVars, directVars, consVars, now, log, appVars, sendFailures,
                   relayCrashes, sentCommitted, failedCommitted>>

\* variant: stop() clears the flag and stops the producer but leaves the
\* relay task and its open batch alone
RelayStopLeavesTask(r, ok, flushed, p) ==
    /\ ~flushed /\ p = 1
    /\ IF ~_running[r]
       THEN UNCHANGED <<_running, relay_producer>>
       ELSE /\ _running' = [_running EXCEPT ![r] = FALSE]
            /\ relay_producer' = [relay_producer EXCEPT ![r] = IF ok THEN "closed" ELSE @]
    /\ relayLast' = [relayLast EXCEPT ![r] = [call |-> "stop", result |-> "returned"]]
    /\ UNCHANGED <<cfgVars, operatorRetries, relayStarts, behaviorLast, faultVars, envVars, pubVars,
                   directVars, consVars, now, outbox, log, appVars, relayVars>>

\* OutboxRelay.start(): returns at once when running; otherwise makes a new
\* AIOKafkaProducer and awaits its start (ok: it succeeds, _running is set and
\* the relay task is created; otherwise the exception is logged and re-raised)
RelayStart(r, ok) ==
    /\ relayStarts < MaxRelayStarts
    /\ relayStarts' = relayStarts + 1
    /\ IF _running[r]
       THEN /\ UNCHANGED <<_running, relay_producer>>
            /\ relayLast' = [relayLast EXCEPT ![r] = [call |-> "start", result |-> "returned"]]
       ELSE /\ relay_producer' = [relay_producer EXCEPT ![r] = IF ok THEN "running" ELSE "created"]
            /\ _running' = [_running EXCEPT ![r] = ok]
            /\ relayLast' = [relayLast EXCEPT ![r] =
                   [call |-> "start", result |-> IF ok THEN "returned" ELSE "raised Exception"]]
    /\ UNCHANGED <<cfgVars, operatorRetries, behaviorLast, faultVars, envVars, pubVars,
                   directVars, consVars, now, outbox, log, appVars, relayVars>>

\* OutboxRelay.stop(): returns at once when not running; otherwise clears
\* _running, cancels the relay task and awaits it (the CancelledError leaves
\* _process_batch through the async with, which closes the session: the open
\* batch is rolled back and its row locks are released), then awaits
\* producer.stop() (ok: it succeeds; otherwise the exception is logged and
\* dropped). flushed: the send the task was waiting for is delivered to
\* partition p while the producer stops.
RelayStop(r, ok, flushed, p) ==
    /\ IF ~_running[r]
       THEN /\ ~flushed /\ p = 1
            /\ UNCHANGED <<_running, relay_producer, log, relayVars>>
       ELSE /\ _running' = [_running EXCEPT ![r] = FALSE]
            /\ relay_producer' = [relay_producer EXCEPT ![r] = IF ok THEN "closed" ELSE @]
            /\ IF flushed
               THEN /\ ok
                    /\ relayPc[r] = "batch" /\ relayIdx[r] <= Len(relayBatch[r])
                    /\ LET id == relayBatch[r][relayIdx[r]] IN
                       /\ p \in PartitionsOfKey(relayTx[r][id].partition_key)
                       /\ log' = [log EXCEPT ![p] = Append(@, KafkaMessage(relayTx[r][id]))]
               ELSE p = 1 /\ UNCHANGED log
            /\ rowLock' = [id \in RowIds |-> IF rowLock[id] = Some(r) THEN None ELSE rowLock[id]]
            /\ relayPc' = [relayPc EXCEPT ![r] = "idle"]
            /\ relayBatch' = [relayBatch EXCEPT ![r] = <<>>]
            /\ relayIdx' = [relayIdx EXCEPT ![r] = 1]
            /\ relayTx' = [relayTx EXCEPT ![r] = <<>>]
            /\ relayFailed' = [relayFailed EXCEPT ![r] = {}]
            /\ UNCHANGED <<sendFailures, relayCrashes, sentCommitted, failedCommitted>>
    /\ relayLast' = [relayLast EXCEPT ![r] = [call |-> "stop", result |-> "returned"]]
    /\ UNCHANGED <<cfgVars, operatorRetries, relayStarts, behaviorLast, faultVars, envVars, pubVars,
                   directVars, consVars, now, outbox, appVars>>

\* time passes
Tick ==
    /\ now + TimeStep <= MaxTime
    /\ now' = now + TimeStep
    /\ UNCHANGED <<cfgVars, opsVars, faultVars, envVars, pubVars, directVars, consVars, outbox, log, appVars, relayVars>>

\* ------------------------------------------------------ InboxRepository

\* the committed rows of inbox_messages with this message_id
InboxRows(e) == {row \in inbox : row.message_id = e}

is_duplicate_never(e) == FALSE

\* variant: only a processed row counts as a duplicate
is_duplicate_processed_only(e) == \E row \in InboxRows(e) : row.status = PROCESSED

\* InboxRepository.is_duplicate: a row with this message_id exists, in any status
is_duplicate(e) == InboxRows(e) # {}

\* InboxRepository.add: the row built, status processing
InboxMessage(e, p, off) ==
    [message_id |-> e, status |-> PROCESSING, attempt_count |-> 0, last_error |-> None,
     partition |-> p, offset |-> off]

\* InboxRepository.mark_as_processed
inbox_mark_as_processed(row) == [row EXCEPT !.status = PROCESSED]

\* InboxRepository.mark_as_failed
inbox_mark_as_failed(row) ==
    [row EXCEPT !.attempt_count = @ + 1, !.last_error = Some("error"), !.status = FAILED]

EmptyTx == [row |-> None, flushed |-> FALSE, effect |-> None]

\* the event carried by the message a consumer is processing
CurEvent(c) == log[c][consCur[c]].event_id

\* The INSERT of the staged inbox row reaches the database (flush). The primary
\* key on message_id decides: "conflict" when a committed row has the key,
\* "blocked" while another open transaction has inserted it, else "ok".
PrimaryKeyNotEnforced(c, e) == "ok"

PrimaryKeyCheck(c, e) ==
    IF InboxRows(e) # {} THEN "conflict"
    ELSE IF \E c2 \in Consumers \ {c} :
                consTx[c2].flushed /\ consTx[c2].row # None /\ consTx[c2].row[1].message_id = e
         THEN "blocked"
         ELSE "ok"

\* ------------------------------------------- InboxIntegrationEventConsumer

\* async for message in self._consumer: the next message of the partition
ConsumerFetch(c) ==
    /\ consPc[c] = "idle"
    /\ consPos[c] <= Len(log[c])
    /\ consCur' = [consCur EXCEPT ![c] = consPos[c]]
    /\ consPos' = [consPos EXCEPT ![c] = @ + 1]
    /\ consPc' = [consPc EXCEPT ![c] = "check"]
    /\ consOutcome' = [consOutcome EXCEPT ![c] = "none"]
    /\ fetched' = [fetched EXCEPT ![log[c][consPos[c]].event_id] = @ + 1]
    /\ UNCHANGED <<cfgVars, opsVars, faultVars, envVars, pubVars, directVars, now, outbox, log, appVars, relayVars, inbox, effects, committed,
                   consTx, handlerFailures, consRestarts, handlerCalls, skipped, pendingFailure>>

\* variant: the inbox path is taken whatever enable_inbox says
ConsumerCheckAlwaysInbox(c) ==
    /\ consPc[c] = "check"
    /\ LET e == CurEvent(c) IN
       IF is_duplicate(e)
       THEN /\ consOutcome' = [consOutcome EXCEPT ![c] = "duplicate"]
            /\ consPc' = [consPc EXCEPT ![c] = "ack"]
            /\ skipped' = [skipped EXCEPT ![e] = @ + 1]
            /\ pendingFailure' = pendingFailure \ {<<c, consCur[c]>>}
            /\ UNCHANGED consTx
       ELSE IF e \notin handlers
       THEN /\ consOutcome' = [consOutcome EXCEPT ![c] = "unroutable"]
            /\ consPc' = [consPc EXCEPT ![c] = "ack"]
            /\ pendingFailure' = pendingFailure \ {<<c, consCur[c]>>}
            /\ UNCHANGED <<consTx, skipped>>
       ELSE /\ consTx' = [consTx EXCEPT ![c] = [EmptyTx EXCEPT !.row = Some(InboxMessage(e, c, consCur[c]))]]
            /\ consPc' = [consPc EXCEPT ![c] = "handle"]
            /\ UNCHANGED <<consOutcome, skipped, pendingFailure>>
    /\ UNCHANGED <<cfgVars, opsVars, faultVars, envVars, pubVars, directVars, now, outbox, log, appVars, relayVars, inbox, effects, committed,
                   consPos, consCur, handlerFailures, consRestarts, handlerCalls, fetched>>

\* _process_message_with_inbox up to the handler call. With enable_inbox off:
\* _process_message_direct, handler lookup and a session for the handler.
\* With enable_inbox on: duplicate check, handler lookup, the inbox row added
\* to the session.
ConsumerCheck(c) ==
    /\ consPc[c] = "check"
    /\ LET e == CurEvent(c) IN
       IF ~enable_inbox
       THEN IF e \notin handlers
            THEN /\ consOutcome' = [consOutcome EXCEPT ![c] = "unroutable"]
                 /\ consPc' = [consPc EXCEPT ![c] = "ack"]
                 /\ pendingFailure' = pendingFailure \ {<<c, consCur[c]>>}
                 /\ UNCHANGED <<consTx, skipped>>
            ELSE /\ consTx' = [consTx EXCEPT ![c] = EmptyTx]
                 /\ consPc' = [consPc EXCEPT ![c] = "handle_direct"]
                 /\ UNCHANGED <<consOutcome, skipped, pendingFailure>>
       ELSE IF is_duplicate(e)
       THEN /\ consOutcome' = [consOutcome EXCEPT ![c] = "duplicate"]
            /\ consPc' = [consPc EXCEPT ![c] = "ack"]
            /\ skipped' = [skipped EXCEPT ![e] = @ + 1]
            /\ pendingFailure' = pendingFailure \ {<<c, consCur[c]>>}
            /\ UNCHANGED consTx
       ELSE IF e \notin handlers
       THEN /\ consOutcome' = [consOutcome EXCEPT ![c] = "unroutable"]
            /\ consPc' = [consPc EXCEPT ![c] = "ack"]
            /\ pendingFailure' = pendingFailure \ {<<c, consCur[c]>>}
            /\ UNCHANGED <<consTx, skipped>>
       ELSE /\ consTx' = [consTx EXCEPT ![c] = [EmptyTx EXCEPT !.row = Some(InboxMessage(e, c, consCur[c]))]]
            /\ consPc' = [consPc EXCEPT ![c] = "handle"]
            /\ UNCHANGED <<consOutcome, skipped, pendingFailure>>
    /\ UNCHANGED <<cfgVars, opsVars, faultVars, envVars, pubVars, directVars, now, outbox, log, appVars, relayVars, inbox, effects, committed,
                   consPos, consCur, handlerFailures, consRestarts, handlerCalls, fetched>>

\* _process_message_direct: handler.handle(event, session) returns
DisabledHandlerReturns(c) ==
    /\ consPc[c] = "handle_direct"
    /\ consTx' = [consTx EXCEPT ![c].effect = Some(CurEvent(c))]
    /\ handlerCalls' = [handlerCalls EXCEPT ![CurEvent(c)] = @ + 1]
    /\ consPc' = [consPc EXCEPT ![c] = "commit_direct"]
    /\ UNCHANGED <<cfgVars, opsVars, faultVars, envVars, pubVars, directVars, now, outbox, log, appVars, relayVars, inbox, effects, committed,
                   consPos, consCur, consOutcome, handlerFailures, consRestarts, skipped, fetched,
                   pendingFailure>>

\* _process_message_direct: handler.handle(event, session) raises; the session
\* closes without a commit, the exception is logged and re-raised, and
\* _consume_loop logs it and goes on with the next message
DisabledHandlerRaises(c) ==
    /\ consPc[c] = "handle_direct"
    /\ handlerFailures < MaxHandlerFailures
    /\ handlerFailures' = handlerFailures + 1
    /\ handlerCalls' = [handlerCalls EXCEPT ![CurEvent(c)] = @ + 1]
    /\ failedDeliveries' = [failedDeliveries EXCEPT ![c][consCur[c]] = @ + 1]
    /\ consTx' = [consTx EXCEPT ![c] = EmptyTx]
    /\ consOutcome' = [consOutcome EXCEPT ![c] = "raised"]
    /\ pendingFailure' = pendingFailure \cup {<<c, consCur[c]>>}
    /\ consPc' = [consPc EXCEPT ![c] = "idle"]
    /\ UNCHANGED <<cfgVars, opsVars, faultVars, envVars, pubVars, retry_counts, dlq, consRebalances, now, outbox, log, appVars, relayVars,
                   inbox, effects, committed, consPos, consCur, consRestarts, skipped, fetched>>

\* _process_message_direct: session.commit() makes the handler's writes visible
DisabledDbCommit(c) ==
    /\ consPc[c] = "commit_direct"
    /\ effects' = [effects EXCEPT ![CurEvent(c)] = @ + 1]
    /\ consTx' = [consTx EXCEPT ![c] = EmptyTx]
    /\ consOutcome' = [consOutcome EXCEPT ![c] = "handled"]
    /\ pendingFailure' = pendingFailure \ {<<c, consCur[c]>>}
    /\ consPc' = [consPc EXCEPT ![c] = "ack"]
    /\ UNCHANGED <<cfgVars, opsVars, faultVars, envVars, pubVars, directVars, now, outbox, log, appVars, relayVars, inbox, committed,
                   consPos, consCur, handlerFailures, consRestarts, handlerCalls, skipped, fetched>>

\* handler.handle(event, session) returns: its writes are in the session
HandlerReturns(c) ==
    /\ consPc[c] = "handle"
    /\ consTx' = [consTx EXCEPT ![c].effect = Some(CurEvent(c))]
    /\ handlerCalls' = [handlerCalls EXCEPT ![CurEvent(c)] = @ + 1]
    /\ consPc' = [consPc EXCEPT ![c] = "mark"]
    /\ UNCHANGED <<cfgVars, opsVars, faultVars, envVars, pubVars, directVars, now, outbox, log, appVars, relayVars, inbox, effects, committed,
                   consPos, consCur, consOutcome, handlerFailures, consRestarts, skipped, fetched, pendingFailure>>

\* variant: the exception goes straight to the consume loop, which fetches the
\* next message while the session of this one is still open
HandlerRaisesLeavesSession(c) ==
    /\ consPc[c] = "handle"
    /\ handlerFailures < MaxHandlerFailures
    /\ handlerFailures' = handlerFailures + 1
    /\ handlerCalls' = [handlerCalls EXCEPT ![CurEvent(c)] = @ + 1]
    /\ consPc' = [consPc EXCEPT ![c] = "idle"]
    /\ failedDeliveries' = [failedDeliveries EXCEPT ![c][consCur[c]] = @ + 1]
    /\ UNCHANGED <<cfgVars, opsVars, faultVars, envVars, pubVars, retry_counts, dlq, consRebalances, now, outbox, log, appVars, relayVars,
                   inbox, effects, committed,
                   consPos, consCur, consTx, consOutcome, consRestarts, skipped, fetched, pendingFailure>>

\* handler.handle(event, session) raises
HandlerRaises(c) ==
    /\ consPc[c] = "handle"
    /\ handlerFailures < MaxHandlerFailures
    /\ handlerFailures' = handlerFailures + 1
    /\ handlerCalls' = [handlerCalls EXCEPT ![CurEvent(c)] = @ + 1]
    /\ consPc' = [consPc EXCEPT ![c] = "error"]
    /\ failedDeliveries' = [failedDeliveries EXCEPT ![c][consCur[c]] = @ + 1]
    /\ UNCHANGED <<cfgVars, opsVars, faultVars, envVars, pubVars, retry_counts, dlq, consRebalances, now, outbox, log, appVars, relayVars,
                   inbox, effects, committed,
                   consPos, consCur, consTx, consOutcome, consRestarts, skipped, fetched, pendingFailure>>

\* inbox_repository.mark_as_processed: its SELECT flushes the session first when
\* autoflush is on, and then finds the row; with autoflush off it finds no row
ConsumerMark(c) ==
    /\ consPc[c] = "mark"
    /\ IF autoflush
       THEN /\ PrimaryKeyCheck(c, CurEvent(c)) # "blocked"
            /\ IF PrimaryKeyCheck(c, CurEvent(c)) = "conflict"
               THEN /\ consPc' = [consPc EXCEPT ![c] = "error"]
                    /\ UNCHANGED consTx
               ELSE /\ consTx' = [consTx EXCEPT ![c].flushed = TRUE,
                                                ![c].row = Some(inbox_mark_as_processed(@[1]))]
                    /\ consPc' = [consPc EXCEPT ![c] = "commit"]
       ELSE /\ consPc' = [consPc EXCEPT ![c] = "commit"]
            /\ UNCHANGED consTx
    /\ UNCHANGED <<cfgVars, opsVars, faultVars, envVars, pubVars, directVars, now, outbox, log, appVars, relayVars, inbox, effects, committed,
                   consPos, consCur, consOutcome, handlerFailures, consRestarts, handlerCalls,
                   skipped, fetched, pendingFailure>>

\* variant: the transaction is never committed: the session closes and rolls back
ConsumerDbCommitMissing(c) ==
    /\ consPc[c] = "commit"
    /\ consTx' = [consTx EXCEPT ![c] = EmptyTx]
    /\ consOutcome' = [consOutcome EXCEPT ![c] = "handled"]
    /\ consPc' = [consPc EXCEPT ![c] = "ack"]
    /\ UNCHANGED <<cfgVars, opsVars, faultVars, envVars, pubVars, directVars, now, outbox, log, appVars, relayVars, inbox, effects, committed,
                   consPos, consCur, handlerFailures, consRestarts, handlerCalls, skipped,
                   fetched, pendingFailure>>

\* session.commit(): what is not flushed yet is flushed, then the inbox row and
\* the handler's writes become visible together
ConsumerDbCommit(c) ==
    /\ consPc[c] = "commit"
    /\ consTx[c].flushed \/ PrimaryKeyCheck(c, CurEvent(c)) # "blocked"
    /\ IF ~consTx[c].flushed /\ PrimaryKeyCheck(c, CurEvent(c)) = "conflict"
       THEN /\ consPc' = [consPc EXCEPT ![c] = "error"]
            /\ UNCHANGED <<inbox, effects, consTx, consOutcome, pendingFailure>>
       ELSE /\ inbox' = inbox \cup {consTx[c].row[1]}
            /\ effects' = [effects EXCEPT ![CurEvent(c)] = @ + 1]
            /\ consTx' = [consTx EXCEPT ![c] = EmptyTx]
            /\ consOutcome' = [consOutcome EXCEPT ![c] = "handled"]
            /\ pendingFailure' = pendingFailure \ {<<c, consCur[c]>>}
            /\ consPc' = [consPc EXCEPT ![c] = "ack"]
    /\ UNCHANGED <<cfgVars, opsVars, faultVars, envVars, pubVars, directVars, now, outbox, log, appVars, relayVars, committed,
                   consPos, consCur, handlerFailures, consRestarts, handlerCalls, skipped, fetched>>

\* _consume_loop: self._consumer.commit() commits the consumed position
ConsumerAck(c) ==
    /\ consPc[c] = "ack"
    /\ committed' = [committed EXCEPT ![c] = consPos[c]]
    /\ consPc' = [consPc EXCEPT ![c] = "idle"]
    /\ UNCHANGED <<cfgVars, opsVars, faultVars, envVars, pubVars, directVars, now, outbox, log, appVars, relayVars, inbox, effects,
                   consPos, consCur, consTx, consOutcome, handlerFailures, consRestarts,
                   handlerCalls, skipped, fetched, pendingFailure>>

\* variant: the except path without session.rollback(): its commit persists
\* what the failed transaction had staged
ConsumerErrorNoRollback(c) ==
    /\ consPc[c] = "error"
    /\ inbox' = {IF row.message_id = CurEvent(c) THEN inbox_mark_as_failed(row) ELSE row : row \in inbox}
                 \cup (IF consTx[c].row = None THEN {} ELSE {inbox_mark_as_failed(consTx[c].row[1])})
    /\ effects' = IF consTx[c].effect = None THEN effects ELSE [effects EXCEPT ![CurEvent(c)] = @ + 1]
    /\ consTx' = [consTx EXCEPT ![c] = EmptyTx]
    /\ consOutcome' = [consOutcome EXCEPT ![c] = "raised"]
    /\ pendingFailure' = pendingFailure \cup {<<c, consCur[c]>>}
    /\ consPc' = [consPc EXCEPT ![c] = "idle"]
    /\ UNCHANGED <<cfgVars, opsVars, faultVars, envVars, pubVars, directVars, now, outbox, log, appVars, relayVars, committed,
                   consPos, consCur, handlerFailures, consRestarts, handlerCalls, skipped, fetched>>

\* the except path of _process_message_with_inbox: rollback, then mark_as_failed
\* on whatever row the table holds for the event_id, commit, re-raise; the
\* consume loop logs the error and goes on to the next message
ConsumerError(c) ==
    /\ consPc[c] = "error"
    /\ inbox' = {IF row.message_id = CurEvent(c) THEN inbox_mark_as_failed(row) ELSE row : row \in inbox}
    /\ consTx' = [consTx EXCEPT ![c] = EmptyTx]
    /\ consOutcome' = [consOutcome EXCEPT ![c] = "raised"]
    /\ pendingFailure' = pendingFailure \cup {<<c, consCur[c]>>}
    /\ consPc' = [consPc EXCEPT ![c] = "idle"]
    /\ UNCHANGED <<cfgVars, opsVars, faultVars, envVars, pubVars, directVars, now, outbox, log, appVars, relayVars, effects, committed,
                   consPos, consCur, handlerFailures, consRestarts, handlerCalls, skipped, fetched>>

\* the consumer process dies and is restarted (or its partition is reassigned):
\* the open transaction is rolled back by the database, and consumption resumes
\* at the committed offset
ConsumerRestart(c) ==
    /\ consRestarts < MaxConsumerRestarts
    /\ consRestarts' = consRestarts + 1
    /\ consTx' = [consTx EXCEPT ![c] = EmptyTx]
    /\ consPos' = [consPos EXCEPT ![c] = committed[c]]
    /\ consPc' = [consPc EXCEPT ![c] = "idle"]
    /\ consOutcome' = [consOutcome EXCEPT ![c] = "none"]
    /\ UNCHANGED <<cfgVars, opsVars, faultVars, envVars, pubVars, directVars, now, outbox, log, appVars, relayVars, inbox, effects, committed,
                   consCur, handlerFailures, handlerCalls, skipped, fetched, pendingFailure>>

\* a producer's message for event e arrives on partition p (the transport is
\* at-least-once: the same event may arrive again)
Deliver(p, e) ==
    /\ Len(log[p]) < MaxLog
    /\ log' = [log EXCEPT ![p] = Append(@, [event_id |-> e, topic |-> get_topic_name(e), key |-> None])]
    /\ UNCHANGED <<cfgVars, opsVars, faultVars, envVars, pubVars, directVars, now, outbox, appVars, relayVars, consVars>>

\* ------------------------------------------ KafkaIntegrationEventPublisher
\* (the Direct Publisher: publish sends to the broker at once)

\* KafkaConfig.dlq_topic_suffix
dlq_topic_suffix == ".dlq"

\* the message _send_to_dlq builds: the envelope plus dlq_metadata, for the
\* topic original_topic + dlq_topic_suffix, with the original partition key
DlqMessage(original_topic, partition_key, e, error) ==
    [topic |-> <<original_topic, dlq_topic_suffix>>,
     event_id |-> e,
     key |-> partition_key,
     dlq_metadata |-> [original_topic |-> original_topic,
                       error_message |-> error,
                       error_type |-> "KafkaError"]]

\* variant: _started is set before producer.start() is awaited
PublisherStartSetsFlagFirst(ok) ==
    /\ IF _started
       THEN UNCHANGED <<_started, _producer, pubPhase>>
       ELSE /\ _producer' = IF ok THEN "running" ELSE "created"
            /\ _started' = TRUE
            /\ pubPhase' = IF ok THEN "started" ELSE pubPhase
    /\ pubLast' = [result |-> IF _started \/ ok THEN "returned" ELSE "raised Exception",
                   dlq_sends |-> 0]
    /\ UNCHANGED <<cfgVars, opsVars, faultVars, envVars, directVars, now, outbox, log, appVars, relayVars, consVars>>

\* start(): returns at once when already started; otherwise makes a new
\* AIOKafkaProducer and awaits its start (ok: it succeeds; otherwise the
\* exception is re-raised and _started stays false)
PublisherStart(ok) ==
    /\ IF _started
       THEN UNCHANGED <<_started, _producer, pubPhase>>
       ELSE /\ _producer' = IF ok THEN "running" ELSE "created"
            /\ _started' = ok
            /\ pubPhase' = IF ok THEN "started" ELSE pubPhase
    /\ pubLast' = [result |-> IF _started \/ ok THEN "returned" ELSE "raised Exception",
                   dlq_sends |-> 0]
    /\ UNCHANGED <<cfgVars, opsVars, faultVars, envVars, directVars, now, outbox, log, appVars, relayVars, consVars>>

\* stop(): returns at once when not started; otherwise awaits producer.stop()
\* (ok: it succeeds and _started is cleared; otherwise the exception is logged,
\* stop returns, _started stays true and the producer is left open or closed)
PublisherStop(ok, left_open) ==
    /\ IF ~_started \/ _producer = "none"
       THEN UNCHANGED <<_started, _producer, pubPhase>>
       ELSE /\ _producer' = IF ~ok /\ left_open THEN _producer ELSE "closed"
            /\ _started' = ~ok
            /\ pubPhase' = IF ok THEN "stopped" ELSE "stop failed"
    /\ pubLast' = [result |-> "returned", dlq_sends |-> 0]
    /\ UNCHANGED <<cfgVars, opsVars, faultVars, envVars, directVars, now, outbox, log, appVars, relayVars, consVars>>

\* publish on a publisher that is not started: RuntimeError
PublisherPublishNotStarted(e) ==
    /\ ~_started \/ _producer = "none"
    /\ pubLast' = [result |-> "raised RuntimeError", dlq_sends |-> 0]
    /\ UNCHANGED <<cfgVars, opsVars, faultVars, envVars, directVars, _started, _producer, pubPhase, now, outbox, log,
                   appVars, relayVars, consVars>>

\* publish on a started publisher -> _send_to_kafka: send_and_wait succeeds
PublisherSendOk(e, p) ==
    /\ _started /\ _producer = "running"
    /\ Len(log[p]) < MaxLog
    /\ p \in PartitionsOfKey(get_partition_key(e))
    /\ log' = [log EXCEPT ![p] = Append(@, [event_id |-> e, topic |-> get_topic_name(e),
                                            key |-> get_partition_key(e)])]
    /\ pubLast' = [result |-> "returned", dlq_sends |-> 0]
    /\ UNCHANGED <<cfgVars, opsVars, faultVars, envVars, directVars, _started, _producer, pubPhase, now, outbox, appVars, relayVars, consVars>>

\* variant: the error is swallowed once the dead-letter send has succeeded
PublisherSendFailsQuietly(e, p, dlq_ok) ==
    /\ _started /\ _producer # "none"
    /\ dlq_ok => _producer = "running"
    /\ p \in PartitionsOfKey(get_partition_key(e))
    /\ Len(dlq[p]) < MaxLog
    /\ dlq' = IF enable_dlq /\ dlq_ok
              THEN [dlq EXCEPT ![p] = Append(@, DlqMessage(get_topic_name(e), get_partition_key(e),
                                                           e, "send failed"))]
              ELSE dlq
    /\ pubLast' = [result |-> IF enable_dlq /\ dlq_ok THEN "returned" ELSE "raised KafkaError",
                   dlq_sends |-> IF enable_dlq THEN 1 ELSE 0]
    /\ UNCHANGED <<cfgVars, opsVars, faultVars, envVars, _started, _producer, pubPhase, retry_counts, consRebalances, failedDeliveries, now, outbox, log,
                   appVars, relayVars, consVars>>

\* publish -> _send_to_kafka: send_and_wait raises KafkaError; with enable_dlq
\* one send to the dead-letter topic is attempted (dlq_ok: the broker accepts
\* it; otherwise its error is logged and dropped); the KafkaError is re-raised
PublisherSendFails(e, p, dlq_ok) ==
    /\ _started /\ _producer # "none"
    /\ dlq_ok => _producer = "running"
    /\ p \in PartitionsOfKey(get_partition_key(e))
    /\ Len(dlq[p]) < MaxLog
    /\ dlq' = IF enable_dlq /\ dlq_ok
              THEN [dlq EXCEPT ![p] = Append(@, DlqMessage(get_topic_name(e), get_partition_key(e),
                                                           e, "send failed"))]
              ELSE dlq
    /\ pubLast' = [result |-> "raised KafkaError", dlq_sends |-> IF enable_dlq THEN 1 ELSE 0]
    /\ UNCHANGED <<cfgVars, opsVars, faultVars, envVars, _started, _producer, pubPhase, retry_counts, consRebalances, failedDeliveries, now, outbox, log,
                   appVars, relayVars, consVars>>

\* the broker log after the sends of events[1..n], each to its partition ps[i]
RECURSIVE SendAll(_, _, _, _)
SendAll(l, events, ps, n) ==
    IF n = 0 THEN l
    ELSE LET before == SendAll(l, events, ps, n - 1)
         IN  [before EXCEPT ![ps[n]] =
                 Append(@, [event_id |-> events[n], topic |-> get_topic_name(events[n]),
                            key |-> get_partition_key(events[n])])]

\* variant: the list is sent as a whole or not at all
publish_many_all_or_nothing(events, ps, fail_at, dlq_ok) ==
    /\ DOMAIN ps = DOMAIN events
    /\ \A i \in DOMAIN events : ps[i] \in PartitionsOfKey(get_partition_key(events[i]))
    /\ fail_at \in 0..Len(events)
    /\ IF ~_started \/ _producer = "none"
       THEN /\ fail_at = 0 /\ ~dlq_ok
            /\ pubLast' = [result |-> "raised RuntimeError", dlq_sends |-> 0]
            /\ UNCHANGED <<log, dlq>>
       ELSE IF events = <<>>
       THEN /\ fail_at = 0 /\ ~dlq_ok
            /\ pubLast' = [result |-> "returned", dlq_sends |-> 0]
            /\ UNCHANGED <<log, dlq>>
       ELSE /\ _producer # "running" => fail_at = 1
            /\ dlq_ok => fail_at > 0 /\ enable_dlq /\ _producer = "running"
            /\ log' = IF fail_at = 0 THEN SendAll(log, events, ps, Len(events)) ELSE log
            /\ \A p \in Partitions : Len(log'[p]) <= MaxLog
            /\ fail_at > 0 => Len(dlq[ps[fail_at]]) < MaxLog
            /\ dlq' = IF dlq_ok
                      THEN [dlq EXCEPT ![ps[fail_at]] =
                               Append(@, DlqMessage(get_topic_name(events[fail_at]),
                                                    get_partition_key(events[fail_at]),
                                                    events[fail_at], "send failed"))]
                      ELSE dlq
            /\ pubLast' = [result |-> IF fail_at = 0 THEN "returned" ELSE "raised KafkaError",
                           dlq_sends |-> IF fail_at > 0 /\ enable_dlq THEN 1 ELSE 0]
    /\ UNCHANGED <<cfgVars, operatorRetries, _running, relay_producer, relayStarts, relayLast,
                   faultVars, envVars, _started, _producer, pubPhase, retry_counts,
                   consRebalances, failedDeliveries, now, outbox, appVars, relayVars, consVars>>

\* publish_many: RuntimeError on a publisher that is not started; nothing for
\* an empty list; otherwise publish for every event in order, stopping at the
\* first send that raises (fail_at: its index, 0 when every send succeeds),
\* which is dead-lettered as in publish and re-raised
publish_many(events, ps, fail_at, dlq_ok) ==
    /\ DOMAIN ps = DOMAIN events
    /\ \A i \in DOMAIN events : ps[i] \in PartitionsOfKey(get_partition_key(events[i]))
    /\ fail_at \in 0..Len(events)
    /\ IF ~_started \/ _producer = "none"
       THEN /\ fail_at = 0 /\ ~dlq_ok
            /\ pubLast' = [result |-> "raised RuntimeError", dlq_sends |-> 0]
            /\ UNCHANGED <<log, dlq>>
       ELSE IF events = <<>>
       THEN /\ fail_at = 0 /\ ~dlq_ok
            /\ pubLast' = [result |-> "returned", dlq_sends |-> 0]
            /\ UNCHANGED <<log, dlq>>
       ELSE /\ _producer # "running" => fail_at = 1
            /\ dlq_ok => fail_at > 0 /\ enable_dlq /\ _producer = "running"
            /\ log' = SendAll(log, events, ps, IF fail_at = 0 THEN Len(events) ELSE fail_at - 1)
            /\ \A p \in Partitions : Len(log'[p]) <= MaxLog
            /\ fail_at > 0 => Len(dlq[ps[fail_at]]) < MaxLog
            /\ dlq' = IF dlq_ok
                      THEN [dlq EXCEPT ![ps[fail_at]] =
                               Append(@, DlqMessage(get_topic_name(events[fail_at]),
                                                    get_partition_key(events[fail_at]),
                                                    events[fail_at], "send failed"))]
                      ELSE dlq
            /\ pubLast' = [result |-> IF fail_at = 0 THEN "returned" ELSE "raised KafkaError",
                           dlq_sends |-> IF fail_at > 0 /\ enable_dlq THEN 1 ELSE 0]
    /\ UNCHANGED <<cfgVars, operatorRetries, _running, relay_producer, relayStarts, relayLast,
                   faultVars, envVars, _started, _producer, pubPhase, retry_counts,
                   consRebalances, failedDeliveries, now, outbox, appVars, relayVars, consVars>>

\* application code calls publish_many of the Direct Publisher
PublisherPublishMany(events, ps, fail_at, dlq_ok) ==
    /\ publish_many(events, ps, fail_at, dlq_ok)
    /\ UNCHANGED behaviorLast

\* ------------------------------------ IntegrationEventPublishingBehavior

\* variant: the failure of publish_many reaches the caller of handle
BehaviorHandlePropagates(handler_ok, events, ps, fail_at, dlq_ok) ==
    /\ behaviorLast.calls < MaxBehaviorCalls
    /\ IF handler_ok /\ events # <<>>
       THEN /\ publish_many(events, ps, fail_at, dlq_ok)
            /\ behaviorLast' = [calls |-> behaviorLast.calls + 1,
                                handler |-> "returned", events |-> events,
                                publish_many |-> pubLast'.result,
                                outcome |-> IF pubLast'.result = "returned"
                                            THEN "returned result" ELSE "raised"]
       ELSE /\ ps = <<>> /\ fail_at = 0 /\ ~dlq_ok
            /\ behaviorLast' = [calls |-> behaviorLast.calls + 1,
                                handler |-> IF handler_ok THEN "returned" ELSE "raised",
                                events |-> IF handler_ok THEN events ELSE <<>>,
                                publish_many |-> "not called",
                                outcome |-> IF handler_ok THEN "returned result" ELSE "raised"]
            /\ UNCHANGED <<cfgVars, operatorRetries, _running, relay_producer, relayStarts, relayLast,
                           faultVars, envVars, directVars, pubVars, now, outbox, log, appVars,
                           relayVars, consVars>>

\* IntegrationEventPublishingBehavior.handle with a Direct Publisher: the
\* request handler runs first (handler_ok: it returns a result whose
\* integration_events is the list events; otherwise it raises and handle
\* raises with it); a list that is not empty goes to publisher.publish_many,
\* whose exception is logged and dropped; the result is returned
BehaviorHandle(handler_ok, events, ps, fail_at, dlq_ok) ==
    /\ behaviorLast.calls < MaxBehaviorCalls
    /\ IF handler_ok /\ events # <<>>
       THEN /\ publish_many(events, ps, fail_at, dlq_ok)
            /\ behaviorLast' = [calls |-> behaviorLast.calls + 1,
                                handler |-> "returned", events |-> events,
                                publish_many |-> pubLast'.result,
                                outcome |-> "returned result"]
       ELSE /\ ps = <<>> /\ fail_at = 0 /\ ~dlq_ok
            /\ behaviorLast' = [calls |-> behaviorLast.calls + 1,
                                handler |-> IF handler_ok THEN "returned" ELSE "raised",
                                events |-> IF handler_ok THEN events ELSE <<>>,
                                publish_many |-> "not called",
                                outcome |-> IF handler_ok THEN "returned result" ELSE "raised"]
            /\ UNCHANGED <<cfgVars, operatorRetries, _running, relay_producer, relayStarts, relayLast,
                           faultVars, envVars, directVars, pubVars, now, outbox, log, appVars,
                           relayVars, consVars>>

\* ------------------------------------------- KafkaIntegrationEventConsumer
\* (the Direct Consumer: no inbox, no session; the handler's effects are its own)

\* async for message in self._consumer: the next message of the partition
DirectFetch(c) ==
    /\ consPc[c] = "idle"
    /\ consPos[c] <= Len(log[c])
    /\ consCur' = [consCur EXCEPT ![c] = consPos[c]]
    /\ consPos' = [consPos EXCEPT ![c] = @ + 1]
    /\ consPc' = [consPc EXCEPT ![c] = "check"]
    /\ consOutcome' = [consOutcome EXCEPT ![c] = "none"]
    /\ fetched' = [fetched EXCEPT ![log[c][consPos[c]].event_id] = @ + 1]
    /\ UNCHANGED <<cfgVars, opsVars, faultVars, envVars, pubVars, directVars, now, outbox, log, appVars, relayVars, inbox, effects, committed,
                   consTx, handlerFailures, consRestarts, handlerCalls, skipped, pendingFailure>>

\* variant: a message without a handler is an error
DirectCheckUnroutableRaises(c) ==
    /\ consPc[c] = "check"
    /\ consPc' = [consPc EXCEPT ![c] = IF CurEvent(c) \notin handlers THEN "error" ELSE "handle"]
    /\ UNCHANGED <<cfgVars, opsVars, faultVars, envVars, pubVars, directVars, now, outbox, log, appVars, relayVars, inbox, effects, committed,
                   consPos, consCur, consTx, consOutcome, handlerFailures, consRestarts, handlerCalls,
                   skipped, fetched, pendingFailure>>

\* _process_message: the handler lookup; no handler means return
DirectCheck(c) ==
    /\ consPc[c] = "check"
    /\ IF CurEvent(c) \notin handlers
       THEN /\ consOutcome' = [consOutcome EXCEPT ![c] = "unroutable"]
            /\ consPc' = [consPc EXCEPT ![c] = "ack"]
       ELSE /\ consPc' = [consPc EXCEPT ![c] = "handle"]
            /\ UNCHANGED consOutcome
    /\ UNCHANGED <<cfgVars, opsVars, faultVars, envVars, pubVars, directVars, now, outbox, log, appVars, relayVars, inbox, effects, committed,
                   consPos, consCur, consTx, handlerFailures, consRestarts, handlerCalls, skipped,
                   fetched, pendingFailure>>

\* handler.handle(event) returns
DirectHandlerReturns(c) ==
    /\ consPc[c] = "handle"
    /\ handlerCalls' = [handlerCalls EXCEPT ![CurEvent(c)] = @ + 1]
    /\ effects' = [effects EXCEPT ![CurEvent(c)] = @ + 1]
    /\ consOutcome' = [consOutcome EXCEPT ![c] = "handled"]
    /\ consPc' = [consPc EXCEPT ![c] = "ack"]
    /\ UNCHANGED <<cfgVars, opsVars, faultVars, envVars, pubVars, directVars, now, outbox, log, appVars, relayVars, inbox, committed,
                   consPos, consCur, consTx, handlerFailures, consRestarts, skipped, fetched,
                   pendingFailure>>

\* handler.handle(event) raises; _process_message logs and re-raises
DirectHandlerRaises(c) ==
    /\ consPc[c] = "handle"
    /\ handlerFailures < MaxHandlerFailures
    /\ handlerFailures' = handlerFailures + 1
    /\ handlerCalls' = [handlerCalls EXCEPT ![CurEvent(c)] = @ + 1]
    /\ failedDeliveries' = [failedDeliveries EXCEPT ![c][consCur[c]] = @ + 1]
    /\ consPc' = [consPc EXCEPT ![c] = "error"]
    /\ UNCHANGED <<cfgVars, opsVars, faultVars, envVars, pubVars, retry_counts, dlq, consRebalances, now, outbox, log, appVars, relayVars,
                   inbox, effects, committed, consPos, consCur, consTx, consOutcome, consRestarts,
                   skipped, fetched, pendingFailure>>

\* _consume_loop after _process_message returned: commit the consumed
\* position, drop the message's retry count
DirectAck(c) ==
    /\ consPc[c] = "ack"
    /\ committed' = [committed EXCEPT ![c] = consPos[c]]
    /\ retry_counts' = [retry_counts EXCEPT ![c][consCur[c]] = 0]
    /\ pendingFailure' = pendingFailure \ {<<c, consCur[c]>>}
    /\ consPc' = [consPc EXCEPT ![c] = "idle"]
    /\ UNCHANGED <<cfgVars, opsVars, faultVars, envVars, pubVars, dlq, consRebalances, failedDeliveries, now, outbox, log, appVars, relayVars,
                   inbox, effects, consPos, consCur, consTx, consOutcome, handlerFailures,
                   consRestarts, handlerCalls, skipped, fetched>>

\* KafkaIntegrationEventConsumer._send_to_dlq: builds the topic name and logs;
\* nothing is produced
consumer_send_to_dlq(dlq_topic, message) == dlq_topic

\* _consume_loop, except path: count the retry; at max_retry_attempts call
\* _send_to_dlq when enable_dlq, commit the consumed position and drop the
\* count; below it only log, and go on with the next message
DirectError(c) ==
    /\ consPc[c] = "error"
    /\ LET retry_count == retry_counts[c][consCur[c]] + 1 IN
       IF retry_count >= max_retry_attempts
       THEN /\ dlq' = IF enable_dlq
                      THEN [dlq EXCEPT ![c] = consumer_send_to_dlq(@, log[c][consCur[c]])]
                      ELSE dlq
            /\ committed' = [committed EXCEPT ![c] = consPos[c]]
            /\ retry_counts' = [retry_counts EXCEPT ![c][consCur[c]] = 0]
            /\ consOutcome' = [consOutcome EXCEPT ![c] = "gave_up"]
            /\ pendingFailure' = pendingFailure \ {<<c, consCur[c]>>}
       ELSE /\ retry_counts' = [retry_counts EXCEPT ![c][consCur[c]] = retry_count]
            /\ consOutcome' = [consOutcome EXCEPT ![c] = "raised"]
            /\ pendingFailure' = pendingFailure \cup {<<c, consCur[c]>>}
            /\ UNCHANGED <<dlq, committed>>
    /\ consPc' = [consPc EXCEPT ![c] = "idle"]
    /\ UNCHANGED <<cfgVars, opsVars, faultVars, envVars, pubVars, consRebalances, failedDeliveries, now, outbox, log, appVars, relayVars,
                   inbox, effects, consPos, consCur, consTx, handlerFailures, consRestarts,
                   handlerCalls, skipped, fetched>>

\* the group rebalances between two messages and the partition comes back to
\* the same consumer: its position is reset to the committed offset, the
\* process and its retry_counts live on
DirectRebalance(c) ==
    /\ consPc[c] = "idle"
    /\ consRebalances < MaxRebalances
    /\ consRebalances' = consRebalances + 1
    /\ consPos' = [consPos EXCEPT ![c] = committed[c]]
    /\ UNCHANGED <<cfgVars, opsVars, faultVars, envVars, pubVars, retry_counts, dlq, failedDeliveries, now, outbox, log, appVars, relayVars,
                   inbox, effects, committed, consPc, consCur, consTx, consOutcome, handlerFailures,
                   consRestarts, handlerCalls, skipped, fetched, pendingFailure>>

\* the consumer process dies and is restarted: consumption resumes at the
\* committed offset with an empty retry_counts
DirectRestart(c) ==
    /\ consRestarts < MaxConsumerRestarts
    /\ consRestarts' = consRestarts + 1
    /\ consPos' = [consPos EXCEPT ![c] = committed[c]]
    /\ consPc' = [consPc EXCEPT ![c] = "idle"]
    /\ consOutcome' = [consOutcome EXCEPT ![c] = "none"]
    /\ retry_counts' = [retry_counts EXCEPT ![c] = [off \in 1..MaxLog |-> 0]]
    /\ UNCHANGED <<cfgVars, opsVars, faultVars, envVars, pubVars, dlq, consRebalances, failedDeliveries, now, outbox, log, appVars, relayVars,
                   inbox, effects, committed, consCur, consTx, handlerFailures, handlerCalls,
                   skipped, fetched, pendingFailure>>

\* ------------------------------------ events, envelopes and broker records
\* (what OutboxEventPublisher + OutboxRelay, and KafkaIntegrationEventPublisher,
\* hand to the broker for an event, and what a consumer unwraps from it)

Modes == {"outbox", "direct"}
ServiceNames == {"orders", "billing"}

\* the class name of event e, which IntegrationEvent.__init__ stores in event_type
event_type(e) == "Event" \o ToString(e)

\* the event instance the caller hands to the publisher of mode m; occurred_at,
\* causation_id and aggregate_type are carried like correlation_id and left out
IntegrationEvent(m, e) ==
    [event_id |-> e, event_type |-> event_type(e), event_version |-> "1.0",
     correlation_id |-> correlation_id[e], source_service |-> source_service[m][e],
     aggregate_id |-> aggregate_id[e]]

\* Python truthiness of an Optional[str]
Truthy(o) == o # None /\ o # Some("")

\* JSON mode of an Optional[UUID]: null, or the text of the UUID
JsonUuid(o) == IF o = None THEN None ELSE Some(str(o[1]))

\* an Optional[UUID] validated from its JSON value
ParseUuid(j) == IF j = None THEN None ELSE Some(UUID(j[1]))

\* IntegrationEvent.to_dict: model_dump(mode='json')
to_dict(ev) ==
    [event_id |-> str(ev.event_id), event_type |-> ev.event_type,
     event_version |-> ev.event_version, correlation_id |-> JsonUuid(ev.correlation_id),
     source_service |-> ev.source_service, aggregate_id |-> JsonUuid(ev.aggregate_id)]

\* variant: the rebuilt event gets a fresh event_id (the default_factory)
from_dict_fresh_event_id(d) ==
    [event_id |-> CHOOSE u \in Uuids : u # UUID(d.event_id), event_type |-> d.event_type,
     event_version |-> d.event_version, correlation_id |-> ParseUuid(d.correlation_id),
     source_service |-> d.source_service, aggregate_id |-> ParseUuid(d.aggregate_id)]

\* event_class(**payload): the event instance validated from a JSON-mode dict
from_dict(d) ==
    [event_id |-> UUID(d.event_id), event_type |-> d.event_type,
     event_version |-> d.event_version, correlation_id |-> ParseUuid(d.correlation_id),
     source_service |-> d.source_service, aggregate_id |-> ParseUuid(d.aggregate_id)]

\* IntegrationEventEnvelope.wrap
wrap(ev) ==
    [event_id |-> ev.event_id, event_type |-> ev.event_type,
     event_version |-> ev.event_version, correlation_id |-> ev.correlation_id,
     source_service |-> ev.source_service, payload |-> to_dict(ev),
     content_type |-> "application/json", schema_version |-> "1.0"]

\* IntegrationEventEnvelope.model_dump(mode='json')
model_dump(envelope) ==
    [event_id |-> str(envelope.event_id), event_type |-> envelope.event_type,
     event_version |-> envelope.event_version,
     correlation_id |-> JsonUuid(envelope.correlation_id),
     source_service |-> envelope.source_service, payload |-> envelope.payload,
     content_type |-> envelope.content_type, schema_version |-> envelope.schema_version]

\* IntegrationEventEnvelope(**value): the envelope validated from a JSON-mode dict
model_validate(d) ==
    [event_id |-> UUID(d.event_id), event_type |-> d.event_type,
     event_version |-> d.event_version, correlation_id |-> ParseUuid(d.correlation_id),
     source_service |-> d.source_service, payload |-> d.payload,
     content_type |-> d.content_type, schema_version |-> d.schema_version]

\* json.dumps / json.loads: a JSON text and the document it denotes
json_dumps(d) == [json |-> d]
json_loads(t) == t.json

\* str.encode('utf-8') / bytes.decode('utf-8')
encode(t) == [utf8 |-> t]
decode(b) == b.utf8

\* IntegrationEventEnvelope.to_json (model_dump_json) and from_json
to_json(envelope) == json_dumps(model_dump(envelope))
from_json(t) == model_validate(json_loads(t))

\* the producers' key_serializer: v.encode('utf-8') if v else None
key_serializer(v) == IF Truthy(v) THEN Some(encode(v[1])) ELSE None

\* OutboxRelay's value_serializer: a str is encoded as it is
relay_value_serializer(v) == encode(v)

\* KafkaIntegrationEventPublisher's value_serializer: json.dumps(v).encode('utf-8')
publisher_value_serializer(v) == encode(json_dumps(v))

\* the consumers' value_deserializer: json.loads(v.decode('utf-8'))
value_deserializer(b) == json_loads(decode(b))

\* `if not event.source_service: event.source_service = <service name>`
set_source_service(o, name) == IF Truthy(o) THEN o ELSE Some(name)

\* variant: the headers dict takes str(event.correlation_id) even when it is unset
outbox_headers_str_none(ev) ==
    << <<"event_type", ev.event_type>>,
       <<"event_id", str(ev.event_id)>>,
       <<"event_version", ev.event_version>>,
       <<"correlation_id", IF ev.correlation_id # None THEN str(ev.correlation_id[1])
                           ELSE "None">>,
       <<"source_service", IF Truthy(ev.source_service) THEN ev.source_service[1] ELSE "">> >>

\* the headers dict of OutboxEventPublisher.publish, in insertion order
outbox_headers(ev) ==
    << <<"event_type", ev.event_type>>,
       <<"event_id", str(ev.event_id)>>,
       <<"event_version", ev.event_version>>,
       <<"correlation_id", IF ev.correlation_id # None THEN str(ev.correlation_id[1])
                           ELSE "">>,
       <<"source_service", IF Truthy(ev.source_service) THEN ev.source_service[1] ELSE "">> >>

\* OutboxRelay._publish_message: the header list from the stored JSON text
relay_headers(text) ==
    LET headers_dict == json_loads(text)
    IN  [i \in DOMAIN headers_dict |-> <<headers_dict[i][1], encode(headers_dict[i][2])>>]

\* the header list of KafkaIntegrationEventPublisher._send_to_kafka
publisher_headers(ev) ==
    << <<"event_type", encode(ev.event_type)>>,
       <<"event_id", encode(str(ev.event_id))>>,
       <<"event_version", encode(ev.event_version)>>,
       <<"correlation_id", IF ev.correlation_id # None
                           THEN encode(str(ev.correlation_id[1])) ELSE encode("")>>,
       <<"source_service", encode(IF Truthy(ev.source_service)
                                  THEN ev.source_service[1] ELSE "")>> >>

\* the OutboxMessage columns that reach the broker
outbox_message(ev, e) ==
    [topic |-> get_topic_name(e), partition_key |-> get_partition_key(e),
     payload |-> to_json(wrap(ev)), headers |-> json_dumps(outbox_headers(ev))]

\* OutboxEventPublisher.publish: sets source_service when unset, stores the row
OutboxPublisherPublish(e) ==
    /\ stored[e] = None
    /\ LET src == set_source_service(source_service["outbox"][e], service_name.outbox)
           ev == [IntegrationEvent("outbox", e) EXCEPT !.source_service = src]
       IN  /\ source_service' = [source_service EXCEPT !["outbox"][e] = src]
           /\ stored' = [stored EXCEPT ![e] = Some(outbox_message(ev, e))]
    /\ UNCHANGED <<cfgVars, opsVars, faultVars, correlation_id, service_name, sent, received, directVars, pubVars,
                   now, outbox, log, appVars, relayVars, consVars>>

\* OutboxRelay._publish_message / _send_to_kafka, the send acknowledged
RelayPublishMessage(e) ==
    /\ stored[e] # None
    /\ sent["outbox"][e] = None
    /\ LET message == stored[e][1]
       IN  sent' = [sent EXCEPT !["outbox"][e] =
                      Some([topic |-> message.topic,
                            value |-> relay_value_serializer(message.payload),
                            key |-> key_serializer(message.partition_key),
                            headers |-> relay_headers(message.headers)])]
    /\ UNCHANGED <<cfgVars, opsVars, faultVars, correlation_id, service_name, source_service, stored, received,
                   directVars, pubVars, now, outbox, log, appVars, relayVars, consVars>>

\* KafkaIntegrationEventPublisher.publish / _send_to_kafka, the send acknowledged
DirectPublisherPublish(e) ==
    /\ sent["direct"][e] = None
    /\ LET src == set_source_service(source_service["direct"][e], service_name.direct)
           ev == [IntegrationEvent("direct", e) EXCEPT !.source_service = src]
       IN  /\ source_service' = [source_service EXCEPT !["direct"][e] = src]
           /\ sent' = [sent EXCEPT !["direct"][e] =
                         Some([topic |-> get_topic_name(e),
                               value |-> publisher_value_serializer(model_dump(wrap(ev))),
                               key |-> key_serializer(get_partition_key(e)),
                               headers |-> publisher_headers(ev)])]
    /\ UNCHANGED <<cfgVars, opsVars, faultVars, correlation_id, service_name, stored, received, directVars, pubVars,
                   now, outbox, log, appVars, relayVars, consVars>>

\* _process_message_with_inbox up to inbox_repository.add: the envelope and
\* the event instance rebuilt from the record's value
ConsumerUnwrap(m, e) ==
    /\ sent[m][e] # None
    /\ received[m][e] = None
    /\ LET envelope == model_validate(value_deserializer(sent[m][e][1].value))
       IN  received' = [received EXCEPT ![m][e] =
                          Some([envelope |-> envelope,
                                event |-> from_dict(envelope.payload),
                                message_id |-> envelope.event_id])]
    /\ UNCHANGED <<cfgVars, opsVars, faultVars, correlation_id, service_name, source_service, stored, sent,
                   directVars, pubVars, now, outbox, log, appVars, relayVars, consVars>>

\* ------------------------------------------------------- specification

InitApp ==
    /\ now = 0
    /\ outbox = [id \in RowIds |-> NoRow]
    /\ nextId = 1
    /\ appSession = <<>>
    /\ everCommitted = {}

InitRelay ==
    /\ rowLock = [id \in RowIds |-> None]
    /\ relayPc = [r \in Relays |-> "idle"]
    /\ relayBatch = [r \in Relays |-> <<>>]
    /\ relayIdx = [r \in Relays |-> 1]
    /\ relayTx = [r \in Relays |-> <<>>]
    /\ sendFailures = 0
    /\ relayCrashes = 0
    /\ sentCommitted = {}
    /\ relayFailed = [r \in Relays |-> {}]
    /\ failedCommitted = [id \in RowIds |-> 0]
    /\ log = [p \in Partitions |-> <<>>]

InitConsumers ==
    /\ inbox = {}
    /\ effects = [e \in Events |-> 0]
    /\ committed = [p \in Partitions |-> 1]
    /\ consPc = [c \in Consumers |-> "idle"]
    /\ consPos = [c \in Consumers |-> 1]
    /\ consCur = [c \in Consumers |-> 1]
    /\ consTx = [c \in Consumers |-> EmptyTx]
    /\ consOutcome = [c \in Consumers |-> "none"]
    /\ handlerFailures = 0
    /\ consRestarts = 0
    /\ handlerCalls = [e \in Events |-> 0]
    /\ skipped = [e \in Events |-> 0]
    /\ fetched = [e \in Events |-> 0]
    /\ pendingFailure = {}

InitDirect ==
    /\ pubLast = [result |-> "none", dlq_sends |-> 0]
    /\ _started = FALSE
    /\ _producer = "none"
    /\ pubPhase = "new"
    /\ retry_counts = [c \in Consumers |-> [off \in 1..MaxLog |-> 0]]
    /\ dlq = [p \in Partitions |-> <<>>]
    /\ consRebalances = 0
    /\ failedDeliveries = [p \in Partitions |-> [off \in 1..MaxLog |-> 0]]

\* no event has been handed to the publishers of this section
InitEnvelope ==
    /\ storageFailures = 0
    /\ correlation_id = [e \in Events |-> None]
    /\ service_name = [outbox |-> "orders", direct |-> "orders"]
    /\ source_service = [m \in Modes |-> [e \in Events |-> None]]
    /\ stored = [e \in Events |-> None]
    /\ sent = [m \in Modes |-> [e \in Events |-> None]]
    /\ received = [m \in Modes |-> [e \in Events |-> None]]

\* every Relay has been started; no operator call and no mediator request yet
InitOps ==
    /\ operatorRetries = 0
    /\ _running = [r \in Relays |-> TRUE]
    /\ relay_producer = [r \in Relays |-> "running"]
    /\ relayStarts = 0
    /\ relayLast = [r \in Relays |-> [call |-> "start", result |-> "returned"]]
    /\ behaviorLast = [calls |-> 0, handler |-> "none", events |-> <<>>, publish_many |-> "none", outcome |-> "none"]

\* KafkaConfig as the inbox deployment sets it
InboxConfig ==
    /\ enable_inbox = TRUE
    /\ enable_dlq = TRUE
    /\ max_retry_attempts = MaxRetryAttempts

AppNext ==
    \/ \E e \in Events : Publish(e)
    \/ \E events \in EventLists : PublishMany(events)
    \/ AppCommit
    \/ AppRollback

RelayNext ==
    \/ \E r \in Relays : RelayPoll(r)
    \/ \E r \in Relays, p \in Partitions : RelaySendOk(r, p)
    \/ \E r \in Relays : RelaySendFail(r)
    \/ \E r \in Relays : RelayCommit(r)
    \/ \E r \in Relays : RelayCrash(r)

ConsumerNext(c) ==
    \/ ConsumerFetch(c)
    \/ ConsumerCheck(c)
    \/ HandlerReturns(c)
    \/ HandlerRaises(c)
    \/ ConsumerMark(c)
    \/ ConsumerDbCommit(c)
    \/ ConsumerAck(c)
    \/ ConsumerError(c)
    \/ ConsumerRestart(c)

DirectNext(c) ==
    \/ DirectFetch(c)
    \/ DirectCheck(c)
    \/ DirectHandlerReturns(c)
    \/ DirectHandlerRaises(c)
    \/ DirectAck(c)
    \/ DirectError(c)
    \/ DirectRebalance(c)
    \/ DirectRestart(c)

\* The outbox side: business transactions, Relay replicas, the broker
SpecRelayInit ==
    /\ aggregate_id \in [Events -> {None} \cup {Some(a) : a \in Aggregates}]
    /\ handlers = Events
    /\ autoflush = TRUE
    /\ InboxConfig
    /\ InitApp /\ InitRelay /\ InitConsumers /\ InitDirect /\ InitOps /\ InitEnvelope

SpecRelayNext == AppNext \/ RelayNext \/ Tick

SpecRelay == SpecRelayInit /\ [][SpecRelayNext]_vars

\* The outbox side under the claim's assumptions: every Relay replica keeps
\* polling and finishes the batches it opens, and the broker accepts a send
\* that is offered to it again and again
RelayFairness ==
    \A r \in Relays :
        /\ WF_vars(RelayPoll(r))
        /\ WF_vars(\E p \in Partitions : RelaySendOk(r, p))
        /\ WF_vars(RelayCommit(r))

SpecRelayLive == SpecRelayInit /\ [][SpecRelayNext]_vars /\ RelayFairness

\* The Relay over a table that other users of OutboxRepository have written
\* too: a caller that commits after get_pending_messages leaves pending rows
\* with a lease, and mark_as_failed leaves failed rows
LeasedRows(id) ==
    {[OutboxMessage(id, e) EXCEPT !.locked_until = l, !.attempt_count = n] :
        e \in Events, l \in {None, Some(0), Some(lock_duration_seconds)},
        n \in 0..(max_attempts - 1)}
    \cup {mark_as_failed([OutboxMessage(id, e) EXCEPT !.attempt_count = max_attempts - 1],
                         max_attempts) : e \in Events}

SpecLeasedInit ==
    /\ aggregate_id = [e \in Events |-> None]
    /\ handlers = Events
    /\ autoflush = TRUE
    /\ InboxConfig
    /\ now = 0
    /\ outbox \in {t \in [RowIds -> UNION {LeasedRows(id) : id \in RowIds}] :
                      \A id \in RowIds : t[id] \in LeasedRows(id)}
    /\ nextId = MaxRows + 1
    /\ appSession = <<>>
    /\ everCommitted = RowIds
    /\ InitRelay /\ InitConsumers /\ InitDirect /\ InitOps /\ InitEnvelope

SpecLeasedNext == RelayNext \/ Tick

SpecLeased == SpecLeasedInit /\ [][SpecLeasedNext]_vars

\* The outbox side with a database that can fail inside a batch
StorageFailure(r) ==
    \/ \E p \in Partitions : RelayMarkPublishedRaises(r, p)
    \/ RelayMarkFailedRaises(r)
    \/ RelayCommitRaises(r)

SpecStorageNext == AppNext \/ RelayNext \/ \E r \in Relays : StorageFailure(r)

SpecStorage == SpecRelayInit /\ [][SpecStorageNext]_vars

\* The Relay over a table with pending and failed rows, and an operator who
\* calls retry_failed_message
SpecOperatorNext ==
    \/ RelayNext
    \/ \E id \in RowIds : OperatorRetry(id)

SpecOperator == SpecLeasedInit /\ [][SpecOperatorNext]_vars

\* The outbox side with an operator who calls retry_failed_message
SpecRetryNext ==
    \/ AppNext
    \/ RelayNext
    \/ \E id \in RowIds : OperatorRetry(id)

SpecRetry == SpecRelayInit /\ [][SpecRetryNext]_vars

\* Relays that are started and stopped by their host, over a table of
\* committed pending rows
SpecLifecycleInit ==
    /\ aggregate_id = [e \in Events |-> None]
    /\ handlers = Events
    /\ autoflush = TRUE
    /\ InboxConfig
    /\ now = 0
    /\ outbox = [id \in RowIds |-> OutboxMessage(id, 1)]
    /\ nextId = MaxRows + 1
    /\ appSession = <<>>
    /\ everCommitted = RowIds
    /\ InitRelay /\ InitConsumers /\ InitDirect /\ InitEnvelope
    /\ operatorRetries = 0
    /\ _running = [r \in Relays |-> FALSE]
    /\ relay_producer = [r \in Relays |-> "none"]
    /\ relayStarts = 0
    /\ relayLast = [r \in Relays |-> [call |-> "none", result |-> "none"]]
    /\ behaviorLast = [calls |-> 0, handler |-> "none", events |-> <<>>, publish_many |-> "none", outcome |-> "none"]

SpecLifecycleNext ==
    \/ RelayNext
    \/ \E r \in Relays, ok \in BOOLEAN : RelayStart(r, ok)
    \/ \E r \in Relays, ok, flushed \in BOOLEAN, p \in Partitions : RelayStop(r, ok, flushed, p)

SpecLifecycle == SpecLifecycleInit /\ [][SpecLifecycleNext]_vars

\* The outbox side with the retention job
SpecCleanupNext ==
    \/ SpecRelayNext
    \/ \E retention \in Retentions : Cleanup(retention)

SpecCleanup == SpecRelayInit /\ [][SpecCleanupNext]_vars

\* The inbox side: messages arrive on the partitions, consumers process them
SpecInboxInit ==
    /\ aggregate_id = [e \in Events |-> None]
    /\ handlers \in {Events, Events \ {NumEvents}}
    /\ autoflush \in BOOLEAN
    /\ InboxConfig
    /\ InitApp /\ InitRelay /\ InitConsumers /\ InitDirect /\ InitOps /\ InitEnvelope

SpecInboxNext ==
    \/ \E p \in Partitions, e \in Events : Deliver(p, e)
    \/ \E c \in Consumers : ConsumerNext(c)

SpecInbox == SpecInboxInit /\ [][SpecInboxNext]_vars

\* The inbox side with one consumer instance, reading partition 1
SpecInboxOneNext ==
    \/ \E e \in Events : Deliver(1, e)
    \/ ConsumerNext(1)

SpecInboxOne == SpecInboxInit /\ [][SpecInboxOneNext]_vars

\* The Inbox Consumer with enable_inbox off
DisabledNext(c) ==
    \/ ConsumerFetch(c)
    \/ ConsumerCheck(c)
    \/ DisabledHandlerReturns(c)
    \/ DisabledHandlerRaises(c)
    \/ DisabledDbCommit(c)
    \/ ConsumerAck(c)
    \/ ConsumerRestart(c)

SpecInboxDisabledInit ==
    /\ aggregate_id = [e \in Events |-> None]
    /\ handlers \in {Events, Events \ {NumEvents}}
    /\ autoflush \in BOOLEAN
    /\ enable_inbox = FALSE
    /\ enable_dlq = TRUE
    /\ max_retry_attempts = MaxRetryAttempts
    /\ InitApp /\ InitRelay /\ InitConsumers /\ InitDirect /\ InitOps /\ InitEnvelope

SpecInboxDisabledNext ==
    \/ \E p \in Partitions, e \in Events : Deliver(p, e)
    \/ \E c \in Consumers : DisabledNext(c)

SpecInboxDisabled == SpecInboxDisabledInit /\ [][SpecInboxDisabledNext]_vars

\* Direct Consumers, one per partition
SpecDirectInit ==
    /\ aggregate_id = [e \in Events |-> None]
    /\ handlers \in {Events, Events \ {NumEvents}}
    /\ autoflush = FALSE
    /\ enable_inbox = FALSE
    /\ enable_dlq \in BOOLEAN
    /\ max_retry_attempts \in 1..MaxRetryAttempts
    /\ InitApp /\ InitRelay /\ InitConsumers /\ InitDirect /\ InitOps /\ InitEnvelope

SpecDirectNext ==
    \/ \E p \in Partitions, e \in Events : Deliver(p, e)
    \/ \E c \in Consumers : DirectNext(c)

SpecDirect == SpecDirectInit /\ [][SpecDirectNext]_vars

\* Both consumer classes side by side: an Inbox Consumer (enable_inbox on or
\* off) on partition 1, Direct Consumers on the other partitions; the last
\* event type has no handler
InboxConsumers == {1}
DirectConsumers == Consumers \ InboxConsumers

SpecUnroutableInit ==
    /\ aggregate_id = [e \in Events |-> None]
    /\ handlers = Events \ {NumEvents}
    /\ autoflush \in BOOLEAN
    /\ enable_inbox \in BOOLEAN
    /\ enable_dlq = TRUE
    /\ max_retry_attempts = MaxRetryAttempts
    /\ InitApp /\ InitRelay /\ InitConsumers /\ InitDirect /\ InitOps /\ InitEnvelope

SpecUnroutableNext ==
    \/ \E p \in Partitions, e \in Events : Deliver(p, e)
    \/ \E c \in InboxConsumers : ConsumerNext(c)
    \/ \E c \in InboxConsumers : DisabledHandlerReturns(c)
    \/ \E c \in InboxConsumers : DisabledHandlerRaises(c)
    \/ \E c \in InboxConsumers : DisabledDbCommit(c)
    \/ \E c \in DirectConsumers : DirectNext(c)

SpecUnroutable == SpecUnroutableInit /\ [][SpecUnroutableNext]_vars

\* The Direct Publisher and the broker
SpecPublisherInit ==
    /\ aggregate_id \in [Events -> {None} \cup {Some(a) : a \in Aggregates}]
    /\ handlers = Events
    /\ autoflush = FALSE
    /\ enable_inbox = FALSE
    /\ enable_dlq \in BOOLEAN
    /\ max_retry_attempts = MaxRetryAttempts
    /\ InitApp /\ InitRelay /\ InitConsumers /\ InitDirect /\ InitOps /\ InitEnvelope

SpecPublisherNext ==
    \/ \E ok \in BOOLEAN : PublisherStart(ok)
    \/ \E ok, left_open \in BOOLEAN : PublisherStop(ok, left_open)
    \/ \E e \in Events : PublisherPublishNotStarted(e)
    \/ \E events \in EventLists :
          \E ps \in [1..Len(events) -> Partitions], fail_at \in 0..Len(events), dlq_ok \in BOOLEAN :
              PublisherPublishMany(events, ps, fail_at, dlq_ok)
    \/ \E e \in Events, p \in Partitions : PublisherSendOk(e, p)
    \/ \E e \in Events, p \in Partitions, dlq_ok \in BOOLEAN : PublisherSendFails(e, p, dlq_ok)

SpecPublisher == SpecPublisherInit /\ [][SpecPublisherNext]_vars

\* The mediator behavior in front of the Direct Publisher
SpecBehaviorInit ==
    /\ aggregate_id = [e \in Events |-> None]
    /\ handlers = Events
    /\ autoflush = FALSE
    /\ enable_inbox = FALSE
    /\ enable_dlq = TRUE
    /\ max_retry_attempts = MaxRetryAttempts
    /\ InitApp /\ InitRelay /\ InitConsumers /\ InitDirect /\ InitOps /\ InitEnvelope

SpecBehaviorNext ==
    \/ \E ok \in BOOLEAN : PublisherStart(ok)
    \/ \E ok, left_open \in BOOLEAN : PublisherStop(ok, left_open)
    \/ \E handler_ok \in BOOLEAN, events \in EventLists :
          \E ps \in {<<>>} \cup [1..Len(events) -> Partitions], fail_at \in 0..Len(events),
             dlq_ok \in BOOLEAN :
              BehaviorHandle(handler_ok, events, ps, fail_at, dlq_ok)

SpecBehavior == SpecBehaviorInit /\ [][SpecBehaviorNext]_vars

\* End to end: events of one aggregate go through the outbox, the Relay
\* replicas and the broker partition of the aggregate to its consumer
SpecE2EInit ==
    /\ aggregate_id = [e \in Events |-> Some(1)]
    /\ handlers = Events
    /\ autoflush = TRUE
    /\ InboxConfig
    /\ InitApp /\ InitRelay /\ InitConsumers /\ InitDirect /\ InitOps /\ InitEnvelope

SpecE2ENext ==
    \/ AppNext
    \/ RelayNext
    \/ \E c \in Consumers : ConsumerNext(c)

SpecE2E == SpecE2EInit /\ [][SpecE2ENext]_vars

\* Both publishing modes side by side: the same events, handed once to the
\* outbox publisher and the Relay and once to the Direct Publisher
SpecModesInit ==
    /\ aggregate_id \in [Events -> {None} \cup {Some(a) : a \in AllAggregates}]
    /\ handlers = Events
    /\ autoflush = FALSE
    /\ InboxConfig
    /\ InitApp /\ InitRelay /\ InitConsumers /\ InitDirect /\ InitOps
    /\ correlation_id \in [Events -> {None} \cup {Some(u) : u \in CorrelationIds}]
    /\ service_name \in [outbox : ServiceNames, direct : ServiceNames]
    /\ \E src \in [Events -> {None, Some("upstream")}] :
           source_service = [m \in Modes |-> src]
    /\ stored = [e \in Events |-> None]
    /\ sent = [m \in Modes |-> [e \in Events |-> None]]
    /\ received = [m \in Modes |-> [e \in Events |-> None]]
    /\ storageFailures = 0

SpecModesNext ==
    \/ \E e \in Events : OutboxPublisherPublish(e)
    \/ \E e \in Events : RelayPublishMessage(e)
    \/ \E e \in Events : DirectPublisherPublish(e)
    \/ \E m \in Modes, e \in Events : ConsumerUnwrap(m, e)

SpecModes == SpecModesInit /\ [][SpecModesNext]_vars

\* ================================================================ claims

\* the message of a row has been acknowledged by the broker
OnBroker(id) ==
    \E p \in Partitions : \E i \in 1..Len(log[p]) :
        log[p][i] = KafkaMessage(outbox[id])

\* the rows a poll made now would look at, oldest first
Eligible == {id \in RowIds : Exists(id) /\ IsPendingUnleased(outbox[id]) /\ SkipLocked(id)}

\* C1 as stated: every row committed pending is eventually sent and marked
\* published.
AtLeastOnceTransport ==
    \A id \in RowIds :
        (Exists(id) /\ outbox[id].status = PENDING)
            ~> (Exists(id) /\ outbox[id].status = PUBLISHED /\ OnBroker(id))

\* C1 amended: every row committed pending is eventually either sent and
\* marked published, or marked failed after max_attempts failed sends in
\* committed batches; a batch whose Relay crashes leaves its rows as they
\* were, unlocked and claimable.
AtLeastOnceOrFailed ==
    /\ \A id \in RowIds :
          (Exists(id) /\ outbox[id].status = PENDING)
              ~> \/ (Exists(id) /\ outbox[id].status = PUBLISHED /\ OnBroker(id))
                 \/ (Exists(id) /\ outbox[id].status = FAILED /\ failedCommitted[id] >= max_attempts)
    /\ [][\A r \in Relays :
             RelayCrash(r) =>
                 \A id \in Range(relayBatch[r]) :
                     /\ outbox'[id] = outbox[id]
                     /\ outbox'[id].status = PENDING
                     /\ id \in Eligible']_vars

\* the message of a row is on the broker n times
TimesOnBroker(id, n) ==
    \E p \in Partitions :
        Cardinality({i \in 1..Len(log[p]) : log[p][i] = KafkaMessage(outbox[id])}) = n

\* the only row was sent by a batch that crashed before its commit, then sent
\* again and marked published by a later batch
AtLeastOnceWitness ==
    /\ relayCrashes = 1 /\ sendFailures = 0 /\ nextId = 2
    /\ Exists(1) /\ outbox[1].status = PUBLISHED /\ TimesOnBroker(1, 2) /\ 1 \in sentCommitted

\* C3: no row is in the claimed batches of two Relay replicas at once, and
\* every claimed row is locked by the replica that claimed it.
ClaimExclusivity ==
    /\ \A r1, r2 \in Relays :
          r1 # r2 => Range(relayBatch[r1]) \cap Range(relayBatch[r2]) = {}
    /\ \A r \in Relays : \A id \in Range(relayBatch[r]) : rowLock[id] = Some(r)

\* two replicas hold a batch at the same time
ClaimExclusivityWitness ==
    /\ relayPc[1] = "batch" /\ relayBatch[1] # <<>>
    /\ relayPc[2] = "batch" /\ relayBatch[2] # <<>>
    /\ Cardinality(Eligible) = 0

\* rows whose business transaction committed and that no committed batch sent
Unsent == everCommitted \ sentCommitted

\* C4 as stated: between the commit of the business transaction and the commit
\* of a batch that sent the row, the row exists with status pending.
PendingUntilSent ==
    \A id \in Unsent : Exists(id) /\ outbox[id].status = PENDING

\* C4 amended: between the commit of the business transaction and the commit
\* of a batch that sent the row, the row exists, with status pending or, once
\* max_attempts sends of it have failed in committed batches, failed; no crash
\* (of the service or of a Relay) changes the table; and a pending row no open
\* batch holds is selected by the next poll unless batch_size older pending
\* rows precede it.
PendingOrFailedUntilSent ==
    /\ [](\A id \in Unsent :
            /\ Exists(id)
            /\ \/ outbox[id].status = PENDING /\ failedCommitted[id] < max_attempts
               \/ outbox[id].status = FAILED /\ failedCommitted[id] >= max_attempts
            /\ (outbox[id].status = PENDING /\ rowLock[id] = None) =>
                  \/ id \in Range(get_pending_messages(batch_size))
                  \/ Cardinality({o \in Eligible : outbox[o].created_at < outbox[id].created_at}) >= batch_size)
    /\ [][(AppRollback \/ \E r \in Relays : RelayCrash(r)) => outbox' = outbox]_vars

\* a row survived a crash of the Relay that had sent it: it is pending,
\* unlocked, its message is on the broker, and the next poll selects it
PendingUntilSentWitness ==
    \E id \in Unsent :
        /\ relayCrashes = 1
        /\ Exists(id) /\ outbox[id].status = PENDING /\ OnBroker(id)
        /\ rowLock[id] = None
        /\ id \in Range(get_pending_messages(batch_size))

\* C5: a row whose send failed in max_attempts committed batches has status
\* failed; a failed row is in no Relay's batch, and nothing changes it again.
BoundedRetryEscalation ==
    /\ [](\A id \in RowIds :
            Exists(id) =>
                /\ failedCommitted[id] >= max_attempts => outbox[id].status = FAILED
                /\ outbox[id].status = FAILED =>
                      /\ failedCommitted[id] = max_attempts
                      /\ \A r \in Relays : id \notin Range(relayBatch[r])
                      /\ id \notin Range(get_pending_messages(batch_size)))
    /\ [][\A id \in RowIds :
             (Exists(id) /\ outbox[id].status = FAILED) => outbox'[id] = outbox[id]]_vars

\* a row is failed after max_attempts failed sends, and a later poll has
\* claimed another row without it
BoundedRetryEscalationWitness ==
    \E id \in RowIds : \E r \in Relays :
        /\ Exists(id) /\ outbox[id].status = FAILED
        /\ failedCommitted[id] = max_attempts
        /\ ~OnBroker(id)
        /\ relayPc[r] = "batch"
        /\ \A o \in Range(relayBatch[r]) : outbox[o].created_at > outbox[id].created_at

\* C6: for two events of one aggregate whose outbox rows were created in the
\* order e1, e2, no handler runs for e2 before the handling of e1 is committed.
OrderingWithinAggregate ==
    \A i, j \in RowIds :
        ( /\ Exists(i) /\ Exists(j)
          /\ outbox[i].created_at < outbox[j].created_at
          /\ outbox[i].partition_key # None
          /\ outbox[i].partition_key = outbox[j].partition_key
          /\ outbox[i].event_id # outbox[j].event_id
          /\ handlerCalls[outbox[j].event_id] > 0 )
        => effects[outbox[i].event_id] >= 1

\* a consumer has passed the duplicate check and holds an open transaction
InFlight(c) == consPc[c] \in {"handle", "mark", "commit"}

\* no message is being processed
Quiet(c) == consPc[c] \in {"idle", "ack"}

\* C2 (one consumer instance, inbox enabled): however often the message of an
\* event is delivered, the handler's side effects are committed at most once
\* and together with exactly one inbox row; no handler runs for an event whose
\* row is committed; and when no handler raised and the consumer never
\* restarted, N deliveries give one handler call, one committed application
\* and N-1 skipped deliveries.
IdempotentConsumption ==
    \A e \in Events :
        /\ effects[e] <= 1
        /\ Cardinality(InboxRows(e)) = effects[e]
        /\ (InFlight(1) /\ CurEvent(1) = e) => InboxRows(e) = {}
        /\ (Quiet(1) /\ handlerFailures = 0 /\ consRestarts = 0 /\ e \in handlers /\ fetched[e] >= 1)
              => (effects[e] = 1 /\ handlerCalls[e] = 1 /\ skipped[e] = fetched[e] - 1)

\* the same event was delivered twice, handled once and skipped once
IdempotentConsumptionWitness ==
    \E e \in Events :
        /\ fetched[e] = 2 /\ skipped[e] = 1 /\ effects[e] = 1 /\ handlerCalls[e] = 1
        /\ Cardinality(InboxRows(e)) = 1
        /\ consPc[1] = "idle" /\ consRestarts = 0 /\ handlerFailures = 0

\* C7 (two consumer instances): in every interleaving the processing
\* transactions of one event_id commit at most once in total: the handler's
\* committed side effects are applied at most once, and the table holds exactly
\* one row for the event_id when they are and none when they are not.
RaceAtMostOneCommit ==
    \A e \in Events :
        /\ effects[e] <= 1
        /\ Cardinality(InboxRows(e)) = effects[e]

\* both instances passed is_duplicate for the same event; one committed, the
\* other hit the primary key
RaceWitness ==
    \E c1, c2 \in Consumers :
        /\ c1 # c2
        /\ consPc[c1] = "ack" /\ consOutcome[c1] = "handled"
        /\ consPc[c2] = "error" /\ consTx[c2].row # None
        /\ Len(log[c1]) >= consCur[c1] /\ Len(log[c2]) >= consCur[c2]
        /\ CurEvent(c1) = CurEvent(c2)
        /\ handlerFailures = 0
        /\ handlerCalls[CurEvent(c1)] = 2
        /\ effects[CurEvent(c1)] = 1
        /\ Cardinality(InboxRows(CurEvent(c1))) = 1

\* C8: the committed offset of a partition never passes a message whose latest
\* processing raised.
OffsetNeverPassesFailure ==
    \A pf \in pendingFailure : committed[pf[1]] <= pf[2]

\* C9 as stated: once the error path has run for a message, inbox_messages
\* holds no row for its event_id and no handler write is persisted.
NoRowAfterError ==
    [][\A c \in Consumers :
          ConsumerError(c) =>
              /\ \A row \in inbox' : row.message_id # CurEvent(c)
              /\ effects' = effects]_vars

\* C9 amended: once the error path has run for a message, inbox_messages holds
\* no row written by the failed transaction (a row for the event_id is there
\* only if another transaction had committed it before), and no handler write
\* of the failed transaction is persisted.
NoOwnRowAfterError ==
    [][\A c \in Consumers :
          ConsumerError(c) =>
              /\ \A row \in inbox' :
                    row.message_id = CurEvent(c) =>
                        \E old \in inbox :
                            /\ old.message_id = row.message_id
                            /\ old.partition = row.partition
                            /\ old.offset = row.offset
              /\ Cardinality(inbox') = Cardinality(inbox)
              /\ effects' = effects]_vars

\* the handler raised, the error path ran, nothing of the message is persisted
NoOwnRowAfterErrorWitness ==
    \E c \in Consumers :
        /\ consPc[c] = "idle" /\ consOutcome[c] = "raised"
        /\ Len(log[c]) >= consCur[c]
        /\ handlerCalls[CurEvent(c)] = 1
        /\ handlerFailures = 1
        /\ InboxRows(CurEvent(c)) = {}
        /\ effects[CurEvent(c)] = 0

AtomicCoCommit ==
    /\ [][/\ \A e \in Events :
                Publish(e) =>
                    /\ outbox' = outbox /\ log' = log /\ everCommitted' = everCommitted
                    /\ DOMAIN appSession' = DOMAIN appSession \cup {nextId}
                    /\ appSession'[nextId].event_id = e
                    /\ appSession'[nextId].status = PENDING
                    /\ \A id \in DOMAIN appSession : appSession'[id] = appSession[id]
          /\ \A events \in EventLists :
                PublishMany(events) =>
                    /\ outbox' = outbox /\ log' = log /\ everCommitted' = everCommitted
                    /\ DOMAIN appSession' = DOMAIN appSession \cup (nextId..(nextId + Len(events) - 1))
                    /\ \A i \in 1..Len(events) :
                          /\ appSession'[nextId + i - 1].event_id = events[i]
                          /\ appSession'[nextId + i - 1].status = PENDING
                    /\ \A id \in DOMAIN appSession : appSession'[id] = appSession[id]
          /\ AppCommit =>
                /\ log' = log
                /\ \A id \in RowIds :
                      outbox'[id] = IF id \in DOMAIN appSession THEN appSession[id] ELSE outbox[id]
          /\ AppRollback => (outbox' = outbox /\ log' = log /\ appSession' = <<>>)]_vars
    /\ [](/\ \A id \in RowIds \ everCommitted : ~Exists(id)
          /\ \A r \in Relays : Range(relayBatch[r]) \subseteq everCommitted
          /\ \A p \in Partitions : \A i \in 1..Len(log[p]) :
                \E id \in everCommitted : log[p][i] = KafkaMessage(outbox[id]))

\* the first row published was rolled back and is nowhere; the second was
\* committed, then sent and marked published
AtomicCoCommitWitness ==
    /\ nextId = 3 /\ everCommitted = {2}
    /\ ~Exists(1) /\ OnBroker(2)
    /\ Exists(2) /\ outbox[2].status = PUBLISHED
    /\ \A p \in Partitions : Len(log[p]) <= 1

\* C12 as stated: mark_as_failed adds one to attempt_count, sets status failed
\* exactly when the new attempt_count >= max_attempts, and leaves locked_until
\* as the claim wrote it.
MarkFailedLeaseUntouched ==
    [][\A r \in Relays :
          RelaySendFail(r) =>
              LET id == relayBatch[r][relayIdx[r]] IN
              /\ relayTx'[r][id].attempt_count = relayTx[r][id].attempt_count + 1
              /\ relayTx'[r][id].status = FAILED <=> relayTx'[r][id].attempt_count >= max_attempts
              /\ relayTx'[r][id].status # FAILED =>
                    /\ relayTx'[r][id].status = PENDING
                    /\ relayTx'[r][id].locked_until = relayTx[r][id].locked_until]_vars

\* C12 amended: mark_as_failed adds one to attempt_count, records the error,
\* sets status failed exactly when the new attempt_count >= max_attempts and
\* otherwise leaves the row pending; in both cases it clears locked_until and
\* changes nothing else, so that a row left pending is claimable as soon as
\* the batch transaction commits, without waiting for the lease to expire.
MarkFailedClearsLease ==
    [][\A r \in Relays :
          /\ RelaySendFail(r) =>
                LET id == relayBatch[r][relayIdx[r]] IN
                /\ relayTx'[r][id].attempt_count = relayTx[r][id].attempt_count + 1
                /\ relayTx'[r][id].status = FAILED <=> relayTx'[r][id].attempt_count >= max_attempts
                /\ relayTx'[r][id].status # FAILED => relayTx'[r][id].status = PENDING
                /\ relayTx[r][id].locked_until # None
                /\ relayTx'[r][id].locked_until = None
                /\ relayTx'[r][id].last_error # None
                /\ \A f \in {"event_id", "partition_key", "created_at", "published_at"} :
                      relayTx'[r][id][f] = relayTx[r][id][f]
                /\ \A o \in DOMAIN relayTx[r] \ {id} : relayTx'[r][o] = relayTx[r][o]
          /\ RelayCommit(r) =>
                \A id \in relayFailed[r] :
                    outbox'[id].status = PENDING => id \in Eligible']_vars

\* a row whose send failed once is pending with no lease and is in a Relay's
\* batch again before the lease of the first claim would have expired
MarkFailedClearsLeaseWitness ==
    \E id \in RowIds : \E r \in Relays :
        /\ Exists(id) /\ outbox[id].status = PENDING
        /\ outbox[id].attempt_count = 1 /\ outbox[id].locked_until = None
        /\ now < lock_duration_seconds
        /\ relayPc[r] = "batch" /\ id \in Range(relayBatch[r])

\* C13: when the send of one row of a batch raises, the failure is recorded on
\* that row only and the loop goes on with the next row of the same batch; the
\* batch commits only after every row was attempted, and the commit gives each
\* row its own outcome: published for a row that was sent, one more attempt
\* (and no publication) for a row whose send raised.
PerRowFailureIsolation ==
    [][\A r \in Relays :
          /\ RelaySendFail(r) =>
                LET id == relayBatch[r][relayIdx[r]] IN
                /\ relayPc'[r] = "batch"
                /\ relayBatch'[r] = relayBatch[r]
                /\ relayIdx'[r] = relayIdx[r] + 1
                /\ relayTx'[r][id].attempt_count = relayTx[r][id].attempt_count + 1
                /\ \A o \in Range(relayBatch[r]) \ {id} : relayTx'[r][o] = relayTx[r][o]
                /\ outbox' = outbox /\ log' = log
          /\ RelayCommit(r) =>
                /\ \A id \in Range(relayBatch[r]) :
                      IF id \in relayFailed[r]
                      THEN /\ outbox'[id].attempt_count = outbox[id].attempt_count + 1
                           /\ outbox'[id].status \in {PENDING, FAILED}
                           /\ outbox'[id].published_at = None
                      ELSE /\ outbox'[id].status = PUBLISHED
                           /\ outbox'[id].attempt_count = outbox[id].attempt_count
                           /\ OnBroker(id)
                /\ \A id \in RowIds \ Range(relayBatch[r]) : outbox'[id] = outbox[id]]_vars

\* one batch of two rows: the send of the older row raised, the younger row
\* was sent all the same, and the batch committed both outcomes
PerRowFailureIsolationWitness ==
    /\ nextId = 3 /\ everCommitted = {1, 2}
    /\ sendFailures = 1 /\ relayCrashes = 0
    /\ outbox[1].status = PENDING /\ outbox[1].attempt_count = 1
    /\ outbox[2].status = PUBLISHED /\ OnBroker(2) /\ ~OnBroker(1)
    /\ \A r \in Relays : relayPc[r] = "idle"

\* C14: a row leaves outbox_messages only through cleanup_old_messages, and
\* only when its status is published and its published_at is before the
\* cutoff; cleanup deletes every such row and touches no other; a failed row
\* is changed by nothing.
NoSilentDrop ==
    [][/\ \A id \in RowIds :
             (Exists(id) /\ outbox'[id] = NoRow) =>
                 /\ outbox[id].status = PUBLISHED
                 /\ \E retention \in Retentions :
                       Cleanup(retention) /\ outbox[id].published_at[1] < now - retention
       /\ \A retention \in Retentions :
             Cleanup(retention) =>
                 \A id \in RowIds :
                     outbox'[id] =
                        IF /\ Exists(id) /\ outbox[id].status = PUBLISHED
                           /\ outbox[id].published_at[1] < now - retention
                        THEN NoRow ELSE outbox[id]
       /\ \A id \in RowIds :
             (Exists(id) /\ outbox[id].status = FAILED) => outbox'[id] = outbox[id]]_vars

\* cleanup has deleted a published row past retention and left a failed row
\* and nothing else
NoSilentDropWitness ==
    \E id, o \in RowIds :
        /\ id \in sentCommitted /\ ~Exists(id)
        /\ Exists(o) /\ outbox[o].status = FAILED

\* C15: while a message is counted in retry_counts (its handler raised fewer
\* than max_retry_attempts times and it has not succeeded since), the
\* committed offset of its partition does not move past it.
DirectOffsetHeldForRetry ==
    \A c \in Consumers : \A off \in 1..MaxLog :
        retry_counts[c][off] > 0 => committed[c] <= off

\* C16: when the Direct Consumer has given up on a message with enable_dlq
\* set and committed the offset past it, the message is on the dead-letter
\* topic.
DirectGiveUpIsDeadLettered ==
    \A c \in Consumers :
        (consOutcome[c] = "gave_up" /\ enable_dlq) =>
            /\ committed[c] > consCur[c]
            /\ \E i \in 1..Len(dlq[c]) : dlq[c][i] = log[c][consCur[c]]

\* C17: with inbox enabled, once the handler has raised for max_retry_attempts
\* deliveries of a message and the consumer is between messages, the message
\* is on the dead-letter topic and the committed offset is past it.
InboxFailureIsDeadLettered ==
    \A c \in Consumers : \A off \in 1..MaxLog :
        (failedDeliveries[c][off] >= max_retry_attempts /\ consPc[c] = "idle") =>
            /\ committed[c] > off
            /\ \E i \in 1..Len(dlq[c]) : dlq[c][i] = log[c][off]

\* the deliveries of event e that are fetched and not yet handed to a handler
AwaitingHandler(e) ==
    Cardinality({c \in Consumers :
                    /\ consPc[c] \in {"check", "handle_direct"}
                    /\ consCur[c] <= Len(log[c]) /\ CurEvent(c) = e})

\* C19: with enable_inbox off the consumer never reads or writes
\* inbox_messages (no row staged, none committed, no delivery skipped as a
\* duplicate); every delivery of a routable message invokes the handler, so
\* that N deliveries give N invocations and, when no handler raises, N
\* committed applications; and an offset is committed only for a message
\* without a handler or after the handler returned and its session committed.
InboxDisabledMode ==
    /\ [](/\ inbox = {}
          /\ \A c \in Consumers : consTx[c].row = None
          /\ \A e \in Events : skipped[e] = 0
          /\ consRestarts = 0 =>
                \A e \in handlers : handlerCalls[e] = fetched[e] - AwaitingHandler(e)
          /\ (consRestarts = 0 /\ handlerFailures = 0 /\ \A c \in Consumers : Quiet(c)) =>
                \A e \in handlers : effects[e] = fetched[e])
    /\ [][\A c \in Consumers :
             committed'[c] # committed[c] =>
                 /\ ConsumerAck(c)
                 /\ \/ consOutcome[c] = "unroutable"
                    \/ /\ consOutcome[c] = "handled"
                       /\ effects[CurEvent(c)] >= 1
                       /\ consTx[c] = EmptyTx]_vars

\* one event was delivered twice to one partition, handled twice and
\* committed twice, and no inbox row exists
InboxDisabledModeWitness ==
    \E e \in Events :
        /\ fetched[e] = 2 /\ handlerCalls[e] = 2 /\ effects[e] = 2
        /\ Len(log[1]) = 2 /\ committed[1] = 3 /\ consPc[1] = "idle"
        /\ consRestarts = 0 /\ handlerFailures = 0
        /\ inbox = {}

\* the handler lookup of consumer c, whichever class it is
LookupStep(c) == IF c \in InboxConsumers THEN ConsumerCheck(c) ELSE DirectCheck(c)

\* the offset commit of consumer c after its processing returned
AckStep(c) == IF c \in InboxConsumers THEN ConsumerAck(c) ELSE DirectAck(c)

\* C18: for a message whose event type has no handler, the Inbox Consumer and
\* the Direct Consumer invoke no handler and write no inbox row (none staged,
\* none committed); the lookup ends the processing as a success, and the
\* commit that follows moves the committed offset past the message, so that
\* the next message of the partition is the next one fetched.
UnroutableSkipped ==
    /\ [](\A e \in Events \ handlers :
             /\ handlerCalls[e] = 0 /\ effects[e] = 0
             /\ InboxRows(e) = {}
             /\ \A c \in Consumers :
                   consTx[c].row # None => consTx[c].row[1].message_id # e)
    /\ [][\A c \in Consumers :
             /\ (LookupStep(c) /\ CurEvent(c) \notin handlers) =>
                   /\ consOutcome'[c] = "unroutable"
                   /\ consPc'[c] = "ack"
                   /\ UNCHANGED <<inbox, effects, handlerCalls, consTx, dlq, retry_counts>>
             /\ (AckStep(c) /\ consOutcome[c] = "unroutable") =>
                   /\ committed'[c] = consCur[c] + 1
                   /\ consPos'[c] = consCur[c] + 1
                   /\ consPc'[c] = "idle"]_vars

\* both consumer classes have skipped a message without a handler, committed
\* its offset and then handled the next message of their partition
UnroutableSkippedWitness ==
    \A c \in {1, 2} :
        /\ Len(log[c]) = 2
        /\ log[c][1].event_id \notin handlers /\ log[c][2].event_id \in handlers
        /\ committed[c] = 3 /\ consPc[c] = "idle" /\ consOutcome[c] = "handled"
        /\ handlerFailures = 0 /\ consRestarts = 0 /\ consRebalances = 0

\* C20: when the send of an event fails with a broker error, the publisher
\* re-raises that error to the caller and puts nothing on the event's topic.
\* With enable_dlq it attempts exactly one dead-letter send, which, when the
\* broker accepts it, appends the envelope plus dlq_metadata (original_topic,
\* error_message, error_type) to the topic original_topic + dlq_topic_suffix
\* under the event's partition key; the error is re-raised whether or not
\* that send succeeded. Without enable_dlq no dead-letter send is attempted.
PublisherDeadLettering ==
    [][\A e \in Events, p \in Partitions, dlq_ok \in BOOLEAN :
          PublisherSendFails(e, p, dlq_ok) =>
              /\ pubLast'.result = "raised KafkaError"
              /\ log' = log
              /\ pubLast'.dlq_sends = (IF enable_dlq THEN 1 ELSE 0)
              /\ IF enable_dlq /\ dlq_ok
                 THEN /\ Len(dlq'[p]) = Len(dlq[p]) + 1
                      /\ SubSeq(dlq'[p], 1, Len(dlq[p])) = dlq[p]
                      /\ LET m == dlq'[p][Len(dlq'[p])] IN
                         /\ m.topic = <<get_topic_name(e), dlq_topic_suffix>>
                         /\ m.event_id = e
                         /\ m.key = get_partition_key(e)
                         /\ m.dlq_metadata.original_topic = get_topic_name(e)
                         /\ DOMAIN m.dlq_metadata = {"original_topic", "error_message", "error_type"}
                      /\ \A q \in Partitions \ {p} : dlq'[q] = dlq[q]
                 ELSE dlq' = dlq]_vars

\* a send failed with enable_dlq set: the dead-letter topic holds the one
\* copy, the event's topic holds nothing, and the caller got the error
PublisherDeadLetteringWitness ==
    /\ enable_dlq
    /\ pubLast = [result |-> "raised KafkaError", dlq_sends |-> 1]
    /\ \E p \in Partitions : Len(dlq[p]) = 1
    /\ \A p \in Partitions : log[p] = <<>>

\* the records of event e that the two modes handed to the broker agree in
\* topic, partition key, decoded JSON value and headers
SameRecord(e) ==
    LET o == sent["outbox"][e][1]
        d == sent["direct"][e][1]
    IN  /\ o.topic = d.topic
        /\ o.key = d.key
        /\ value_deserializer(o.value) = value_deserializer(d.value)
        /\ o.headers = d.headers

\* the caller had set source_service on the event before publishing it
CallerSetSourceService(e) ==
    \A m \in Modes : source_service[m][e] \notin {Some(n) : n \in ServiceNames}

PartitionKeyDerivation ==
    /\ \A m \in Modes, e \in Events :
          sent[m][e] # None =>
              sent[m][e][1].key = IF aggregate_id[e] = None THEN None
                                  ELSE Some(encode(str(aggregate_id[e][1])))
    /\ \A m1, m2 \in Modes, e1, e2 \in Events :
          /\ sent[m1][e1] # None /\ sent[m2][e2] # None
          /\ aggregate_id[e1] # None /\ aggregate_id[e1] = aggregate_id[e2]
          => sent[m1][e1][1].key = sent[m2][e2][1].key
    /\ \A e \in Events :
          stored[e] # None =>
              stored[e][1].partition_key = IF aggregate_id[e] = None THEN None
                                           ELSE Some(str(aggregate_id[e][1]))

\* two different events of one aggregate have been sent, one by the Relay and
\* one by the Direct Publisher
PartitionKeyDerivationWitness ==
    \E e1, e2 \in Events :
        /\ e1 # e2
        /\ aggregate_id[e1] # None /\ aggregate_id[e1] = aggregate_id[e2]
        /\ sent["outbox"][e1] # None /\ sent["direct"][e2] # None
        /\ sent["outbox"][e1][1].key = Some(encode(str(NumAggregates)))

\* a call of KafkaIntegrationEventPublisher.publish or publish_many
PublishCall ==
    \/ \E e \in Events : PublisherPublishNotStarted(e)
    \/ \E e \in Events, p \in Partitions : PublisherSendOk(e, p)
    \/ \E e \in Events, p \in Partitions, dlq_ok \in BOOLEAN : PublisherSendFails(e, p, dlq_ok)
    \/ \E events \in EventLists :
          \E ps \in [1..Len(events) -> Partitions], fail_at \in 0..Len(events), dlq_ok \in BOOLEAN :
              PublisherPublishMany(events, ps, fail_at, dlq_ok)

\* the call raised RuntimeError and nothing reached the broker
RefusedUnsent ==
    /\ pubLast'.result = "raised RuntimeError"
    /\ UNCHANGED <<log, dlq>>

\* start() on a started publisher and stop() on one that is not started
\* return without touching the producer, the flag or the broker
LifecycleNoOps ==
    /\ pubPhase = "started" /\ (\E ok \in BOOLEAN : PublisherStart(ok)) =>
          pubLast'.result = "returned" /\ UNCHANGED <<_started, _producer, log, dlq>>
    /\ pubPhase \in {"new", "stopped"}
          /\ (\E ok, left_open \in BOOLEAN : PublisherStop(ok, left_open)) =>
          pubLast'.result = "returned" /\ UNCHANGED <<_started, _producer, log, dlq>>

\* C24 as stated: publish and publish_many called before start() has
\* succeeded, or after stop(), raise RuntimeError and send nothing to the
\* broker; start() on a started publisher and stop() on a publisher that is
\* not started are no-ops.
PublisherLifecycle ==
    [][/\ pubPhase \in {"new", "stopped", "stop failed"} /\ PublishCall => RefusedUnsent
       /\ LifecycleNoOps]_vars

\* C24 amended: publish and publish_many called before start() has succeeded,
\* or after a stop() that closed the producer, raise RuntimeError and send
\* nothing; start() on a started publisher and stop() on a publisher that is
\* not started are no-ops. After a stop() whose producer.stop() raised, the
\* publisher still counts as started: publish goes to the producer and
\* start() returns at once.
PublisherLifecycleStopSucceeded ==
    [][/\ pubPhase \in {"new", "stopped"} /\ PublishCall => RefusedUnsent
       /\ LifecycleNoOps
       /\ pubPhase = "stop failed" =>
             /\ _started
             /\ PublishCall => pubLast'.result # "raised RuntimeError"
             /\ (\E ok \in BOOLEAN : PublisherStart(ok)) => UNCHANGED <<_started, _producer>>]_vars

\* a publisher that has sent a message and was then stopped has refused a
\* publish call
PublisherLifecycleWitness ==
    /\ pubPhase = "stopped"
    /\ ~_started
    /\ _producer = "closed"
    /\ pubLast.result = "raised RuntimeError"
    /\ \E p \in Partitions : log[p] # <<>>

DedupByExistence ==
    [][\A c \in Consumers :
          /\ ConsumerCheck(c) /\ enable_inbox /\ InboxRows(CurEvent(c)) # {} =>
                /\ consOutcome'[c] = "duplicate"
                /\ consPc'[c] = "ack"
                /\ UNCHANGED <<inbox, handlerCalls, effects, consTx>>
          /\ consOutcome[c] = "duplicate" /\ consPc[c] = "ack" =>
                /\ consPc'[c] \in {"ack", "idle"}
                /\ consTx[c] = EmptyTx /\ consTx'[c] = EmptyTx
                /\ ConsumerAck(c) =>
                      /\ committed'[c] = consCur[c] + 1
                      /\ UNCHANGED <<inbox, handlerCalls, effects>>]_vars

\* a delivery has been skipped, and its offset committed, on a row that is
\* failed
DedupByExistenceWitness ==
    \E c \in Consumers :
        /\ consOutcome[c] = "duplicate"
        /\ consPc[c] = "idle"
        /\ committed[c] = consCur[c] + 1
        /\ \E row \in InboxRows(CurEvent(c)) : row.status = FAILED

\* C27 An inbox row committed with status processed is never changed by
\* another consumer instance: whatever the consumers do next, the row keeps
\* status processed, its attempt_count and its last_error.
ProcessedRowNeverChanged ==
    [][\A row \in inbox : row.status = PROCESSED => row \in inbox']_vars

\* C28 Storage failure fails closed in the Relay: when marking a row or the
\* batch commit raises, nothing of the batch commits: every row of the batch
\* keeps the status, attempt_count, last_error and locked_until it had when
\* the batch claimed it (no other transaction changes a claimed row), the
\* rows are claimable again at once, and what the batch had sent stays on the
\* broker, so a later batch sends it again.
StorageFailureFailsClosed ==
    [][\A r \in Relays :
          /\ StorageFailure(r) =>
                /\ relayBatch[r] # <<>>
                /\ \A id \in Range(relayBatch[r]) :
                      /\ outbox'[id] = outbox[id]
                      /\ outbox'[id].status = PENDING
                      /\ rowLock'[id] = None
                      /\ id \in Eligible'
                /\ outbox' = outbox
                /\ \A p \in Partitions : SubSeq(log'[p], 1, Len(log[p])) = log[p]
                /\ UNCHANGED <<sentCommitted, failedCommitted>>
          /\ relayPc[r] = "batch" /\ ~RelayCommit(r) =>
                \A id \in Range(relayBatch[r]) : outbox'[id] = outbox[id]]_vars

\* a row was sent by a batch whose mark_as_published raised, kept pending by
\* the rollback, then sent again and marked published by a later batch
StorageFailureWitness ==
    /\ storageFailures = 1 /\ relayCrashes = 0 /\ sendFailures = 0
    /\ \E id \in RowIds :
          /\ Exists(id) /\ outbox[id].status = PUBLISHED /\ outbox[id].attempt_count = 0
          /\ TimesOnBroker(id, 2)

\* the broker holds a message with the topic, event and partition key of row
AckedFor(row) ==
    \E p \in Partitions : \E i \in 1..Len(log[p]) :
        /\ log[p][i].topic = row.topic
        /\ log[p][i].event_id = row.event_id
        /\ log[p][i].key = row.partition_key

\* C29 In every reachable state an outbox row with status published has been
\* acknowledged by the broker at least once on the row's topic with the row's
\* event and partition key; this holds inside an open batch too (a row is
\* marked published only after its send in the same batch); and a published
\* row is never in a batch, never sent again and never changed by the Relay.
PublishedImpliesAcked ==
    /\ \A id \in RowIds :
          Exists(id) /\ outbox[id].status = PUBLISHED =>
              /\ AckedFor(outbox[id])
              /\ id \in sentCommitted
              /\ \A r \in Relays : id \notin Range(relayBatch[r])
    /\ \A r \in Relays : \A id \in DOMAIN relayTx[r] :
          relayTx[r][id].status = PUBLISHED =>
              /\ AckedFor(relayTx[r][id])
              /\ id \notin relayFailed[r]
              /\ \E i \in 1..(relayIdx[r] - 1) : relayBatch[r][i] = id

\* a row is published and on the broker once while a later batch, which
\* does not hold it, is open
PublishedImpliesAckedWitness ==
    \E id \in RowIds, r \in Relays :
        /\ Exists(id) /\ outbox[id].status = PUBLISHED
        /\ TimesOnBroker(id, 1)
        /\ relayPc[r] = "batch"
        /\ relayIdx[r] > 1
        /\ id \notin Range(relayBatch[r])

\* InboxRepository.get_stuck_messages with a timeout that has passed: the
\* committed rows with status processing
get_stuck_messages == {row \in inbox : row.status = PROCESSING}

\* C30 Whatever the consumers do, crashes and failures included, no inbox row
\* is committed with status processing (the insert with status processing and
\* the update to processed are one transaction), so get_stuck_messages
\* returns nothing as long as no operator has called retry_failed_message.
NoCommittedProcessingRow == get_stuck_messages = {}

\* C31 With Relays that share one max_attempts and no operator retry, every
\* committed outbox row has attempt_count equal to the number of its failed
\* publish attempts in batches that committed; a pending row has attempt_count
\* below max_attempts, a failed row has attempt_count = max_attempts; and the
\* attempt_count of a row never decreases.
AttemptCountInvariant ==
    /\ [](\A id \in RowIds :
            Exists(id) =>
                /\ outbox[id].attempt_count = failedCommitted[id]
                /\ outbox[id].status = PENDING => outbox[id].attempt_count < max_attempts
                /\ outbox[id].status = FAILED => outbox[id].attempt_count = max_attempts
                /\ outbox[id].status \in {PENDING, PUBLISHED, FAILED})
    /\ [][\A id \in RowIds :
             Exists(id) =>
                 /\ Exists(id)'
                 /\ outbox'[id].attempt_count >= outbox[id].attempt_count]_vars

\* two sends of a row have failed, one in a batch that was rolled back and one
\* in a batch that committed: the row is pending with attempt_count 1
AttemptCountWitness ==
    /\ sendFailures = 2 /\ storageFailures = 1
    /\ \E id \in RowIds :
          /\ Exists(id) /\ outbox[id].status = PENDING
          /\ outbox[id].attempt_count = 1
          /\ failedCommitted[id] = 1

\* C32 retry_failed_message on a failed row sets status pending and clears
\* locked_until and last_error but keeps attempt_count, which is at least
\* max_attempts; so the next failed send of the row makes it failed again at
\* once: no fresh budget of max_attempts.
RetryKeepsAttemptCount ==
    [][/\ \A id \in RowIds :
             Exists(id) /\ outbox[id].status = FAILED /\ OperatorRetry(id) =>
                 /\ outbox'[id].status = PENDING
                 /\ outbox'[id].locked_until = None
                 /\ outbox'[id].last_error = None
                 /\ outbox'[id].attempt_count = outbox[id].attempt_count
                 /\ outbox'[id].attempt_count >= max_attempts
                 /\ id \in Range(get_pending_messages(batch_size))'
       /\ \A r \in Relays :
             RelaySendFail(r) =>
                 LET id == relayBatch[r][relayIdx[r]] IN
                 relayTx[r][id].attempt_count >= max_attempts =>
                     /\ relayTx'[r][id].status = FAILED
                     /\ relayTx'[r][id].attempt_count = relayTx[r][id].attempt_count + 1
       /\ \A id \in RowIds :
             Exists(id) /\ outbox[id].status = PENDING
                 /\ outbox[id].attempt_count >= max_attempts =>
                     outbox'[id].status \in {PENDING, PUBLISHED, FAILED}
                         /\ (outbox'[id].status = FAILED =>
                                outbox'[id].attempt_count = outbox[id].attempt_count + 1)]_vars

\* a failed row was retried by the operator and is failed again after one
\* more failed send, with attempt_count = max_attempts + 1
RetryKeepsAttemptCountWitness ==
    /\ operatorRetries = 1
    /\ sendFailures = 1
    /\ \E id \in RowIds :
          /\ Exists(id) /\ outbox[id].status = FAILED
          /\ outbox[id].attempt_count = max_attempts + 1

\* C33 retry_failed_message changes only failed rows: called with the id of a
\* published or pending row it leaves the row unchanged, so a published row
\* never returns to pending and is never claimed by a Relay again.
RetryChangesOnlyFailedRows ==
    [][\A id \in RowIds :
          /\ Exists(id) /\ outbox[id].status # FAILED /\ OperatorRetry(id) =>
                outbox'[id] = outbox[id]
          /\ Exists(id) /\ outbox[id].status = PUBLISHED =>
                /\ outbox'[id].status = PUBLISHED
                /\ \A r \in Relays : id \notin Range(relayBatch'[r])]_vars

\* the Relay is between a start() that succeeded and the next stop()
Started(r) == relayLast[r] = [call |-> "start", result |-> "returned"]

\* a step of the batch of Relay r: a claim, a send or the commit
BatchStep(r) ==
    \/ RelayPoll(r) /\ relayPc'[r] = "batch"
    \/ \E p \in Partitions : RelaySendOk(r, p)
    \/ RelaySendFail(r)
    \/ RelayCommit(r)

\* C35 Relay lifecycle: a Relay claims, sends and commits only between a
\* start() that succeeded and the next stop(); start() on a running Relay and
\* stop() on a Relay that is not running change nothing; a start() whose
\* producer fails to start raises and leaves the Relay not running; and once
\* stop() has returned the Relay holds no batch and no row lock, begins no
\* batch and sends no row.
RelayLifecycle ==
    /\ [](\A r \in Relays :
            /\ _running[r] <=> Started(r)
            /\ ~Started(r) =>
                  /\ relayPc[r] = "idle" /\ relayBatch[r] = <<>> /\ relayTx[r] = <<>>
                  /\ \A id \in RowIds : rowLock[id] # Some(r))
    /\ [][log' # log =>
             \E r \in Relays :
                 /\ Started(r)
                 /\ \/ \E p \in Partitions : RelaySendOk(r, p)
                    \/ \E ok \in BOOLEAN, p \in Partitions : RelayStop(r, ok, TRUE, p)]_vars
    /\ [][\A r \in Relays :
             /\ BatchStep(r) => Started(r) /\ relay_producer[r] = "running"
             /\ Started(r) /\ (\E ok \in BOOLEAN : RelayStart(r, ok)) =>
                   UNCHANGED <<_running, relay_producer, relayLast, outbox, log, relayVars>>
             /\ ~Started(r)
                   /\ (\E ok, flushed \in BOOLEAN, p \in Partitions : RelayStop(r, ok, flushed, p)) =>
                   UNCHANGED <<_running, relay_producer, outbox, log, relayVars>>
             /\ ~Started(r) /\ RelayStart(r, FALSE) =>
                   /\ ~_running'[r]
                   /\ relayLast'[r].result = "raised Exception"
                   /\ UNCHANGED <<outbox, log, relayVars>>]_vars

\* a Relay was stopped inside a batch after a row of the batch had reached
\* the broker: the row is still pending and unlocked, and the Relay is idle
RelayLifecycleWitness ==
    \E r \in Relays, id \in RowIds :
        /\ relayLast[r] = [call |-> "stop", result |-> "returned"]
        /\ ~_running[r] /\ relay_producer[r] = "closed"
        /\ relayPc[r] = "idle"
        /\ Exists(id) /\ outbox[id].status = PENDING /\ rowLock[id] = None
        /\ OnBroker(id)
        /\ \A o \in Relays : relayPc[o] = "idle"

\* consumer c is between two messages: no handler runs, no session is open
BetweenMessages(c) ==
    /\ consPc[c] = "idle"
    /\ consTx[c] = EmptyTx

\* Relay r is between two batches: no transaction, no claimed row, no lock
BetweenBatches(r) ==
    /\ relayPc[r] = "idle"
    /\ relayBatch[r] = <<>> /\ relayTx[r] = <<>> /\ relayFailed[r] = {}
    /\ \A id \in RowIds : rowLock[id] # Some(r)

\* C34 Units of work of one worker do not overlap: a consumer instance fetches
\* the next message only when the handler and the transaction of the previous
\* message are over (committed, skipped, failed, or lost with the process),
\* and while a message is in progress only its own steps move the instance;
\* a Relay opens a batch only when its previous batch is over (committed or
\* rolled back), and the rows it holds are the rows of that one batch.
UnitsOfWorkDoNotOverlap ==
    /\ [](\A c \in Consumers : consPc[c] = "idle" => BetweenMessages(c))
    /\ [](\A r \in Relays :
            /\ relayPc[r] = "idle" => BetweenBatches(r)
            /\ relayPc[r] = "batch" =>
                  /\ DOMAIN relayTx[r] = Range(relayBatch[r])
                  /\ \A id \in RowIds : rowLock[id] = Some(r) <=> id \in Range(relayBatch[r]))
    /\ [][/\ \A c \in Consumers :
                ConsumerFetch(c) =>
                    /\ BetweenMessages(c)
                    /\ consTx'[c] = EmptyTx
                    /\ UNCHANGED <<inbox, effects, handlerCalls>>
          /\ \A r \in Relays :
                RelayPoll(r) => BetweenBatches(r)]_vars

\* a consumer that has committed one message is handling the next one while
\* a Relay that has committed one batch has the next one open
UnitsOfWorkWitness ==
    /\ \E c \in Consumers :
          /\ consPc[c] = "handle"
          /\ consCur[c] = 2
          /\ \E row \in inbox : row.partition = c /\ row.offset = 1
    /\ \E r \in Relays :
          /\ relayPc[r] = "batch"
          /\ \E id \in sentCommitted : id \notin Range(relayBatch[r])

\* the messages a step has appended to partition p
Appended(p) == SubSeq(log'[p], Len(log[p]) + 1, Len(log'[p]))

\* the events among the first n of a list that go to partition p, in list order
EventsFor(events, ps, n, p) ==
    LET idx == SelectSeq([i \in 1..n |-> i], LAMBDA i : ps[i] = p)
    IN  [j \in 1..Len(idx) |-> events[idx[j]]]

\* C36 publish_many of the Direct Publisher is not all-or-nothing: the events
\* are sent one by one in list order; when the send of the k-th event raises,
\* the first k-1 events are on the broker, the k-th and the later ones are
\* not sent, and the error reaches the caller; when no send raises every
\* event is on the broker and the call returns; an empty list sends nothing.
PublishManyNotAllOrNothing ==
    [][\A events \in EventLists :
         \A ps \in [1..Len(events) -> Partitions], fail_at \in 0..Len(events), dlq_ok \in BOOLEAN :
             _started /\ _producer # "none" /\ publish_many(events, ps, fail_at, dlq_ok) =>
                 LET n == IF fail_at = 0 THEN Len(events) ELSE fail_at - 1 IN
                 /\ \A p \in Partitions :
                       /\ SubSeq(log'[p], 1, Len(log[p])) = log[p]
                       /\ [j \in 1..Len(Appended(p)) |-> Appended(p)[j].event_id]
                              = EventsFor(events, ps, n, p)
                 /\ pubLast'.result = IF fail_at = 0 THEN "returned" ELSE "raised KafkaError"
                 /\ events = <<>> => UNCHANGED <<log, dlq>>]_vars

\* publish_many was handed two different events; the first is the only
\* message on the broker, the send of the second raised and was
\* dead-lettered, and the call raised
PublishManyWitness ==
    /\ Len(behaviorLast.events) = 2
    /\ behaviorLast.events[1] # behaviorLast.events[2]
    /\ behaviorLast.publish_many = "raised KafkaError"
    /\ \E p \in Partitions :
          /\ Len(log[p]) = 1 /\ log[p][1].event_id = behaviorLast.events[1]
          /\ \A q \in Partitions \ {p} : log[q] = <<>>
    /\ \E p \in Partitions :
          /\ Len(dlq[p]) = 1 /\ dlq[p][1].event_id = behaviorLast.events[2]
          /\ \A q \in Partitions \ {p} : dlq[q] = <<>>

\* C37 IntegrationEventPublishingBehavior.handle publishes only after the
\* request handler has returned: a handler that raises publishes nothing and
\* handle raises; and a failure of publisher.publish_many is swallowed: handle
\* returns the handler's result whatever publish_many did, a refusal by a
\* publisher that is not started and a send that failed half way included.
BehaviorSwallowsPublishFailure ==
    /\ [](/\ behaviorLast.handler = "raised" =>
               behaviorLast.outcome = "raised" /\ behaviorLast.publish_many = "not called"
          /\ behaviorLast.handler = "returned" => behaviorLast.outcome = "returned result"
          /\ behaviorLast.publish_many \notin {"none", "not called"} =>
               behaviorLast.handler = "returned" /\ behaviorLast.events # <<>>)
    /\ [][\A events \in EventLists :
             \A ps \in {<<>>} \cup [1..Len(events) -> Partitions], fail_at \in 0..Len(events),
                dlq_ok \in BOOLEAN :
                 /\ BehaviorHandle(FALSE, events, ps, fail_at, dlq_ok) =>
                       /\ UNCHANGED <<log, dlq, pubLast>>
                       /\ behaviorLast'.outcome = "raised"
                 /\ BehaviorHandle(TRUE, events, ps, fail_at, dlq_ok) =>
                       /\ behaviorLast'.outcome = "returned result"
                       /\ events # <<>> => behaviorLast'.publish_many = pubLast'.result
                       /\ events = <<>> => UNCHANGED <<log, dlq, pubLast>>]_vars

\* handle returned the handler's result although publish_many raised after
\* its first event had reached the broker
BehaviorWitness ==
    /\ behaviorLast.handler = "returned"
    /\ behaviorLast.outcome = "returned result"
    /\ behaviorLast.publish_many = "raised KafkaError"
    /\ Len(behaviorLast.events) = 2
    /\ \E p \in Partitions : log[p] # <<>>
====
